---- MODULE Spec2Model ----
(***************************************************************************)
(* A model of the document branding engine of cyber-docs-backend.          *)
(*                                                                         *)
(* The engine (src/main.py, apply_branding_to_docx) unzips a template      *)
(* package and a target package into two directories, edits the target    *)
(* directory in ten consecutive steps and zips it again as the output.     *)
(* The model keeps the target directory as its state, the template as a    *)
(* record that no step changes, and has one action per step.  A further    *)
(* action feeds the output back in as the next target (a second run).      *)
(*                                                                         *)
(* Representation.                                                         *)
(*   part name      a record [dir, stem, n, ext] for word/<dir>/<stem><n>. *)
(*                  <ext>; the substring tests of the code ("header" in    *)
(*                  target.lower(), ...) read its fields                   *)
(*   relationship   [Id, Type, Target]; an Id is [k, n]: k = "rId" stands  *)
(*                  for the text "rId<n>", any other k for an id that does *)
(*                  not start with "rId"                                   *)
(*   document.xml   [ok, rDecl, usesR, closed, body]: body is the list of  *)
(*                  the body's blocks in document order, a block being a   *)
(*                  paragraph (that may carry a nested sectPr) or a sectPr *)
(*                  that is a direct child of the body; ok says the text   *)
(*                  is well-formed XML apart from namespace binding; rDecl *)
(*                  that the root declares the prefix r; usesR that the    *)
(*                  body content (outside any sectPr) uses r: attributes;  *)
(*                  closed that the text holds the end tag of the body     *)
(*   sectPr child   [tag, w, h, rid]: w/h hold the page size of a pgSz and *)
(*                  the margin / header-footer distance of a pgMar         *)
(* The template is a single-section document whose relationship ids are    *)
(* unique, as are the target's.                                            *)
(*                                                                         *)
(* The specifications share the variables.                                 *)
(*   Spec         one or more calls of main.py's apply_branding_to_docx    *)
(*   BatchSpec    batch_process of src/fixed_main.py with its three        *)
(*                strategies; BatchFairSpec adds progress of the loop      *)
(*   MainBatchSpec, BackupBatchSpec  batch_process of src/main.py and of   *)
(*                src/main_backup.py; AnyBatchSpec is a batch of any of    *)
(*                the three files                                          *)
(*   MergeSpec    the zip-level merge of src/fixed_main.py                 *)
(*   PrimarySpec  create_consistent_document of src/fixed_main.py          *)
(*   MarginsSpec  update_section_margins of main.py and of fixed_main.py   *)
(*   JobSpec      the background task process_documents of src/app.py      *)
(*   ServiceSpec  the task together with the requests delete_job and       *)
(*                download_all of src/app.py                               *)
(*   RequestsSpec composition requests that run in parallel, batches of    *)
(*                src/fixed_main.py over one output directory and tasks of *)
(*                src/app.py, one step of one request at a time;           *)
(*                AnyRunSpec is a batch or such a set of requests          *)
(* Each leaves the variables of the others at their idle values.           *)
(***************************************************************************)
EXTENDS Integers, Sequences, FiniteSets, TLC

VARIABLES
    pc,                     \* the step apply_branding_to_docx executes next
    run,                    \* number of the current call (1 = first)
    tpl,                    \* the template package (read only)
    orig,                   \* the target package as first given
    files,                  \* target dir: part name -> origin of its bytes
    doc,                    \* target dir: word/document.xml
    docRels,                \* target dir: word/_rels/document.xml.rels
    hfRels,                 \* target dir: word/_rels/<header|footer>N.xml.rels
    styles,                 \* target dir: word/styles.xml
    ctypes,                 \* target dir: [Content_Types].xml
    media_files,            \* local of apply_branding_to_docx
    rel_files,              \* local of apply_branding_to_docx
    template_to_new_rids,   \* local of apply_branding_to_docx (a dict)
    out,                    \* the package written at output_path
    first,                  \* the output of the first call
    zip_path,               \* the file <output base>.zip beside output_path
    alt_output,             \* the file <output base>_alt.docx
    alt_zip_path,           \* the file <output base>_alt.zip
    INPUT_DIR,              \* batch_process: the listing of the input directory
    OUTPUT_DIR,             \* batch_process: file name -> content
    idx,                    \* batch_process: position of filename in the listing
    bpc,                    \* batch_process: the step executed next
    existing,               \* batch_process: OUTPUT_DIR before the batch
    input_kind,             \* the file at input_path of the current call
    trace,                  \* per input file: the strategies run on it
    TEMPLATE_DOCX,          \* the template package file: what it holds
    processing_jobs,        \* app.py: the entry of the job in processing_jobs
    upload_dir,             \* app.py: the listing of the job's upload directory
    output_dir,             \* app.py: the job's output directory, name -> content
    processed_files,        \* local of process_documents
    jidx,                   \* process_documents: position of filename in the listing
    jpc,                    \* process_documents: the step executed next
    visited,                \* per uploaded file: the passes of the loop body over it
    error_log,              \* the files logger.error reported in the loop
    exc,                    \* process_documents: the exception its outer handler caught
    downloads,              \* download_all: the entries of the job it served an archive for
    dpc,                    \* delete_job: the step executed next
    uploaded,               \* app.py: the uploads that are in the upload directory
    dirs,                   \* app.py: the job's upload and output directory exist
    listed,                 \* process_documents: what os.listdir returned
    entries,                \* delete_job: what shutil.rmtree has listed and not unlinked
    template_doc,           \* create_consistent_document: body of the template copy
    content_doc,            \* create_consistent_document: body of the input document
    ppc,                    \* create_consistent_document: the step executed next
    sect_pr_element,        \* update_section_margins: the children of its argument
    mpc,                    \* update_section_margins: called or returned
    requests,               \* requests in parallel: per request its input and its step
    disk                    \* requests in parallel: the output directories, path -> content

\* the files apply_branding_to_docx may leave beside output_path
ioVars == <<zip_path, alt_output, alt_zip_path>>

\* the state of one call of main.py's apply_branding_to_docx
engineVars == <<pc, run, tpl, orig, files, doc, docRels, hfRels, styles, ctypes,
                media_files, rel_files, template_to_new_rids, out, first, ioVars>>

\* the state of fixed_main.py's batch_process
batchVars == <<INPUT_DIR, OUTPUT_DIR, existing, idx, bpc, input_kind, trace,
               TEMPLATE_DOCX>>

\* the state of one background task of app.py (process_documents)
jobVars == <<processing_jobs, upload_dir, output_dir, processed_files, jidx, jpc,
             visited, error_log, exc, downloads, dpc, uploaded, dirs, listed, entries>>

\* the state of one call of a function checked on its own:
\* create_consistent_document, update_section_margins
callVars == <<template_doc, content_doc, ppc, sect_pr_element, mpc>>

\* the state of the composition requests that run in parallel
poolVars == <<requests, disk>>

\* what a call of main.py's apply_branding_to_docx never touches
outerVars == <<batchVars, jobVars, callVars, poolVars>>

vars == <<engineVars, outerVars>>

-----------------------------------------------------------------------------
(* Bounds of the model *)

MaxRuns == 2

MaxTgtRels == 2

-----------------------------------------------------------------------------
(* Program constants *)

A4Width == 11906

A4Height == 16838

StdMargin == 1440

StdHeaderFooter == 720

-----------------------------------------------------------------------------
(* Part names *)

Pt(d, s, n, e) == [dir |-> d, stem |-> s, n |-> n, ext |-> e]

Header1 == Pt("", "header", 1, "xml")
Footer1 == Pt("", "footer", 1, "xml")
Header4 == Pt("", "header", 4, "xml")
Image1Png == Pt("media", "image", 1, "png")
LogoEmf == Pt("media", "logo", 1, "emf")
StylesXml == Pt("", "styles", 0, "xml")
ThemeXml == Pt("theme", "theme", 1, "xml")
SettingsXml == Pt("", "settings", 0, "xml")
FontTableXml == Pt("", "fontTable", 0, "xml")
WebSettingsXml == Pt("", "webSettings", 0, "xml")
NumberingXml == Pt("", "numbering", 0, "xml")
DocumentXml == Pt("", "document", 0, "xml")

Parts == {Header1, Footer1, Header4, Image1Png, LogoEmf, StylesXml, ThemeXml,
          SettingsXml, FontTableXml, WebSettingsXml, NumberingXml, DocumentXml}

\* "header" in target.lower() or "footer" in target.lower()
IsHeaderFooterName(p) == p.stem \in {"header", "footer"}

\* "media/" in target, "media" in part_name.lower()
IsMediaName(p) == p.dir = "media"

\* the six file names apply_branding_to_docx copies from the template
header_footer_list ==
    {Pt("", s, n, "xml") : s \in {"header", "footer"}, n \in 1..3}

\* the files copied when the target lacks them ("styles.xml" is merged)
style_files == <<StylesXml, ThemeXml, SettingsXml, FontTableXml,
                 WebSettingsXml, NumberingXml>>

image_types == <<"png", "jpg", "jpeg", "gif", "bmp", "tif", "tiff", "wmf">>

-----------------------------------------------------------------------------
(* Relationship ids *)

MkRid(n) == [k |-> "rId", n |-> n]

OtherId(n) == [k |-> "docRel", n |-> n]

NoRid == [k |-> "none", n |-> 0]

\* int(rid[3:]) of an id that starts with "rId"; ids that do not are skipped
RidNum(id) == IF id.k = "rId" THEN id.n ELSE 0

Rel(id, type, target) == [Id |-> id, Type |-> type, Target |-> target]

Max(a, b) == IF a >= b THEN a ELSE b

RECURSIVE MaxRid(_)
MaxRid(rels) ==
    IF rels = <<>> THEN 0
    ELSE Max(RidNum(rels[Len(rels)].Id), MaxRid(SubSeq(rels, 1, Len(rels) - 1)))

-----------------------------------------------------------------------------
(* Sequences *)

Range(s) == {s[i] : i \in 1..Len(s)}

\* list.insert(i, x) with a 0-based index
InsertAt(s, i, x) ==
    IF i >= Len(s) THEN Append(s, x)
    ELSE SubSeq(s, 1, i) \o <<x>> \o SubSeq(s, i + 1, Len(s))

RemoveAt(s, i) == SubSeq(s, 1, i - 1) \o SubSeq(s, i + 1, Len(s))

\* 1-based position of the first element with the tag, 0 when there is none
FirstTag(s, t) ==
    IF \E i \in 1..Len(s) : s[i].tag = t
    THEN CHOOSE i \in 1..Len(s) :
            s[i].tag = t /\ \A j \in 1..(i - 1) : s[j].tag # t
    ELSE 0

-----------------------------------------------------------------------------
(* Section properties *)

Child(t, w, h, rid) == [tag |-> t, w |-> w, h |-> h, rid |-> rid]

TypeEl == Child("type", 0, 0, NoRid)
PgSz(w, h) == Child("pgSz", w, h, NoRid)
PgMar(m, hf) == Child("pgMar", m, hf, NoRid)
HeaderRef(rid) == Child("headerReference", 0, 0, rid)
FooterRef(rid) == Child("footerReference", 0, 0, rid)
Cols == Child("cols", 0, 0, NoRid)
DocGrid == Child("docGrid", 0, 0, NoRid)

IsRef(c) == c.tag \in {"headerReference", "footerReference"}

Refs(kids) == SelectSeq(kids, IsRef)

update_section_margins(sect) ==
    LET iMar == FirstTag(sect, "pgMar")
        s1 == IF iMar > 0 THEN RemoveAt(sect, iMar) ELSE sect
        pg_mar == PgMar(StdMargin, StdHeaderFooter)
        iSz == FirstTag(s1, "pgSz")
        s2 == IF iSz > 0 THEN InsertAt(s1, iSz, pg_mar)
              ELSE InsertAt(InsertAt(s1, 0, PgSz(A4Width, A4Height)), 1, pg_mar)
        iType == FirstTag(s2, "type")
        s3 == IF iType > 0 THEN RemoveAt(s2, iType) ELSE s2
    IN  InsertAt(s3, 0, TypeEl)

-----------------------------------------------------------------------------
(* Packages: the inputs of apply_branding_to_docx *)

Opt(c, x) == IF c THEN <<x>> ELSE <<>>

Para == [tag |-> "p", has |-> FALSE, sect |-> <<>>]

\* a paragraph whose pPr holds a sectPr (a section break inside the body)
ParaSect(kids) == [tag |-> "p", has |-> TRUE, sect |-> kids]

\* a sectPr that is a direct child of the body
BodySect(kids) == [tag |-> "sectPr", has |-> TRUE, sect |-> kids]

StyleEl(id, def) == [tag |-> "style", id |-> id, def |-> def, sub |-> <<>>]

DocDefaults(def) == [tag |-> "docDefaults", id |-> "", def |-> def, sub |-> <<>>]

NoFile == "none"

FileMap(S, origin) == [q \in Parts |-> IF q \in S THEN origin ELSE NoFile]

NoRelFile == [has |-> FALSE, list |-> <<>>]

RelOwners == {Header1, Footer1, Header4}

\* a page size and margins other than the engine's defaults (US Letter)
LetterSz == PgSz(12240, 15840)

LetterMar == PgMar(1000, 500)

\* ids base+1, base+2, ... in the order of the list of <<type, target>>
NumberRels(pairs, base) ==
    [i \in 1..Len(pairs) |-> Rel(MkRid(base + i), pairs[i][1], pairs[i][2])]

\* the id under which a relationship collection holds the target
IdOf(rels, target) ==
    (CHOOSE i \in 1..Len(rels) : rels[i].Target = target)

TemplateDocRels(p) ==
    NumberRels(Opt(p.tstyles # "none", <<"styles", StylesXml>>)
               \o Opt(Header1 \in p.hf, <<"header", Header1>>)
               \o Opt(Footer1 \in p.hf, <<"footer", Footer1>>)
               \o Opt(Header4 \in p.hf, <<"header", Header4>>)
               \o Opt(p.docImg, <<"image", Image1Png>>),
               p.base)

TemplateGeometry(p) ==
    CASE p.geom = "a4" -> <<PgSz(A4Width, A4Height), PgMar(StdMargin, StdHeaderFooter)>>
      [] p.geom = "letter" -> <<LetterSz, LetterMar>>
      [] OTHER -> <<>>

TemplateSect(p) ==
    LET rels == TemplateDocRels(p)
        rid(q) == rels[IdOf(rels, q)].Id
        hdr == Opt(Header1 \in p.hf, HeaderRef(rid(Header1)))
               \o Opt(Header4 \in p.hf, HeaderRef(rid(Header4)))
        ftr == Opt(Footer1 \in p.hf, FooterRef(rid(Footer1)))
        geom == TemplateGeometry(p)
    IN  CASE p.shape = "word" ->
                [has |-> TRUE, kids |-> hdr \o ftr \o geom \o <<Cols, DocGrid>>]
          [] p.shape = "footerFirst" ->
                [has |-> TRUE, kids |-> ftr \o hdr \o geom \o <<Cols>>]
          [] p.shape = "geomFirst" ->
                [has |-> TRUE, kids |-> geom \o <<Cols>> \o hdr \o ftr]
          [] OTHER -> [has |-> FALSE, kids |-> <<>>]

TemplateStyles(p) ==
    CASE p.tstyles = "hf" ->
            [has |-> TRUE, ok |-> TRUE,
             kids |-> <<DocDefaults("tpl"), StyleEl("Normal", "tpl"),
                        StyleEl("Header", "tpl"), StyleEl("Footer", "tpl")>>]
      [] p.tstyles = "brand" ->
            [has |-> TRUE, ok |-> TRUE,
             kids |-> <<StyleEl("Heading1", "tpl"), StyleEl("Brand", "tpl"),
                        StyleEl("Header", "tpl")>>]
      [] p.tstyles = "bad" ->
            [has |-> TRUE, ok |-> FALSE,
             kids |-> <<StyleEl("Brand", "tpl")>>]
      [] OTHER -> [has |-> FALSE, ok |-> TRUE, kids |-> <<>>]

TemplateMedia(p) ==
    p.media \cup (IF p.hdrMedia \/ p.docImg THEN {Image1Png} ELSE {})

Template(p) ==
    [files |-> FileMap({DocumentXml} \cup p.hf \cup TemplateMedia(p) \cup p.extra
                       \cup (IF p.tstyles # "none" THEN {StylesXml} ELSE {}), "tpl"),
     docRels |-> [has |-> TRUE, list |-> TemplateDocRels(p)],
     hfRels |-> [o \in RelOwners |->
                    IF o = Header1 /\ Header1 \in p.hf /\ p.hdrMedia
                    THEN [has |-> TRUE,
                          list |-> <<Rel(MkRid(1), "image", Image1Png)>>]
                    ELSE NoRelFile],
     sect |-> TemplateSect(p),
     styles |-> TemplateStyles(p),
     ctypes |-> [has |-> TRUE,
                 defaults |-> <<"rels", "xml">>
                              \o Opt(Image1Png \in TemplateMedia(p), "png")
                              \o Opt(LogoEmf \in TemplateMedia(p), "emf"),
                 overrides |-> <<DocumentXml>>
                               \o Opt(Header1 \in p.hf, Header1)
                               \o Opt(Footer1 \in p.hf, Footer1)
                               \o Opt(Header4 \in p.hf, Header4)
                               \o Opt(p.tstyles # "none", StylesXml)]]

\* the target's own relationships: ids 1..n, the first to settings.xml, the
\* others to the target's image; "other" adds one whose id is not an rId
TargetDocRels(p) ==
    IF p.drels < 0 THEN NoRelFile
    ELSE [has |-> TRUE,
          list |-> Opt(p.otherId, Rel(OtherId(9), "settings", SettingsXml))
                   \o [i \in 1..p.drels |->
                         IF i = 1 THEN Rel(MkRid(1), "settings", SettingsXml)
                         ELSE Rel(MkRid(i), "image", Image1Png)]]

TargetHasImage(p) == p.gmedia \/ p.drels >= 2

TargetSectKids(p) ==
    IF p.dshape = "topOwn"
    THEN <<HeaderRef(MkRid(1)), LetterSz, LetterMar>>
    ELSE <<LetterSz, LetterMar>>

TargetBody(p) ==
    CASE p.dshape = "none" -> <<Para, Para>>
      [] p.dshape \in {"top", "topOwn"} -> <<Para, BodySect(TargetSectKids(p))>>
      [] p.dshape = "nested" ->
            <<ParaSect(<<PgSz(A4Width, A4Height)>>), Para, BodySect(TargetSectKids(p))>>

TargetStyles(p) ==
    CASE p.gstyles = "own" ->
            [has |-> TRUE, ok |-> TRUE,
             kids |-> <<StyleEl("Normal", "tgt"), StyleEl("Heading1", "tgt")>>]
      [] p.gstyles = "ownHeader" ->
            [has |-> TRUE, ok |-> TRUE,
             kids |-> <<DocDefaults("tgt"), StyleEl("Header", "tgt")>>]
      [] p.gstyles = "bad" ->
            [has |-> TRUE, ok |-> FALSE,
             kids |-> <<StyleEl("Heading1", "tgt")>>]
      [] OTHER -> [has |-> FALSE, ok |-> TRUE, kids |-> <<>>]

\* a zip without the root manifest [Content_Types].xml
NoContentTypes == [has |-> FALSE, defaults |-> <<>>, overrides |-> <<>>]

Target(p) ==
    [files |-> FileMap({DocumentXml, SettingsXml}
                       \cup (IF TargetHasImage(p) THEN {Image1Png} ELSE {})
                       \cup (IF p.gtheme THEN {ThemeXml, NumberingXml} ELSE {})
                       \cup (IF p.gstyles # "none" THEN {StylesXml} ELSE {}), "tgt"),
     doc |-> [ok |-> p.dok, rDecl |-> TRUE, usesR |-> p.usesR, closed |-> p.dend,
              body |-> TargetBody(p)],
     docRels |-> TargetDocRels(p),
     hfRels |-> [o \in RelOwners |-> NoRelFile],
     styles |-> TargetStyles(p),
     ctypes |-> IF p.gct
                THEN [has |-> TRUE,
                      defaults |-> <<"rels", "xml">> \o Opt(TargetHasImage(p), "png"),
                      overrides |-> <<DocumentXml, SettingsXml>>
                                    \o Opt(p.gstyles # "none", StylesXml)
                                    \o Opt(p.gtheme, ThemeXml)
                                    \o Opt(p.gtheme, NumberingXml)]
                ELSE NoContentTypes]

NoPackage ==
    [files |-> FileMap({}, NoFile),
     doc |-> [ok |-> FALSE, rDecl |-> FALSE, usesR |-> FALSE, closed |-> FALSE,
              body |-> <<>>],
     docRels |-> NoRelFile,
     hfRels |-> [o \in RelOwners |-> NoRelFile],
     styles |-> [has |-> FALSE, ok |-> TRUE, kids |-> <<>>],
     ctypes |-> [has |-> FALSE, defaults |-> <<>>, overrides |-> <<>>]]

\* the target directory as a package
TargetDir ==
    [files |-> files, doc |-> doc, docRels |-> docRels, hfRels |-> hfRels,
     styles |-> styles, ctypes |-> ctypes]


-----------------------------------------------------------------------------
(* Step 1: margins and section properties of the target (main.py 92-115) *)

\* the text uses the prefix r: in the body content or in a reference
UsesRPrefix(d) ==
    d.usesR \/ \E i \in 1..Len(d.body) : Refs(d.body[i].sect) # <<>>

\* ET.parse succeeds: well-formed, and every prefix used is declared
ParseOk(d) == d.ok /\ (UsesRPrefix(d) => d.rDecl)

\* body.findall(".//sectPr") finds a sectPr that is no direct child of the
\* body, and body.remove of it raises
HasNestedSect(d) ==
    \E i \in 1..Len(d.body) : d.body[i].tag = "p" /\ d.body[i].has

NotBodySect(b) == b.tag # "sectPr"

\* the remove loop, the new sectPr and tree.write, which declares only the
\* namespaces the tree uses; an exception leaves the file as it was
MarginsUpdated(d) ==
    IF ParseOk(d) /\ ~HasNestedSect(d)
    THEN [d EXCEPT !.body = Append(SelectSeq(d.body, NotBodySect),
                                   BodySect(update_section_margins(<<>>))),
                   !.rDecl = d.usesR]
    ELSE d

-----------------------------------------------------------------------------
(* Step 2: style and theme files (main.py 117-194) *)

\* "Header" in style_id or "Footer" in style_id, on the style ids of the model
\* (Normal, Heading1, Brand, Header, Footer)
IsHeaderFooterStyleId(id) == id \in {"Header", "Footer"}

IsHeaderFooterStyle(k) == k.tag = "style" /\ IsHeaderFooterStyleId(k.id)

\* root.findall(".//style"): the style elements below the root, those inside
\* a nested element included
StyleIdsOf(kids) ==
    {kids[i].id : i \in {j \in 1..Len(kids) : kids[j].tag = "style"}}
    \cup UNION {Range(kids[i].sub) : i \in 1..Len(kids)}

\* target_root.find(".//styles"): a styles element BELOW the root (the root,
\* which is the styles element of a style part, is not searched)
StylesElement(kids) == FirstTag(kids, "styles")

RECURSIVE AddStyles(_, _)
AddStyles(kids, hfs) ==
    IF hfs = <<>> THEN kids
    ELSE LET style == Head(hfs)
             exists == style.id \in StyleIdsOf(kids)
             at == StylesElement(kids)
             next == IF ~exists /\ at > 0
                     THEN [kids EXCEPT ![at].sub = Append(@, style.id)]
                     ELSE kids
         IN  AddStyles(next, Tail(hfs))

MergedKids(t, g) ==
    LET td == FirstTag(t.kids, "docDefaults")
        k1 == IF td > 0 /\ FirstTag(g.kids, "docDefaults") = 0 /\ Len(g.kids) > 0
              THEN InsertAt(g.kids, 0, t.kids[td])
              ELSE g.kids
    IN  AddStyles(k1, SelectSeq(t.kids, IsHeaderFooterStyle))

\* the merge of styles.xml; when parsing raises, the template's file is copied
MergeStyles(t, g) ==
    IF t.ok /\ g.ok THEN [g EXCEPT !.kids = MergedKids(t, g)] ELSE t

\* a copy that does not look at the target: the template's file always wins
CopiesOverTarget(q) == q \in Range(style_files) /\ tpl.files[q] # NoFile

\* the file is copied from the template (the target lacks it)
CopiedStyleFile(q) ==
    q \in Range(style_files) /\ tpl.files[q] # NoFile /\ files[q] = NoFile

CopyStyleFiles ==
    /\ pc = "styles"
    /\ files' = [q \in Parts |->
                    IF CopiedStyleFile(q) THEN "tpl"
                    ELSE IF q = StylesXml /\ tpl.files[q] # NoFile
                            /\ ~(tpl.styles.ok /\ styles.ok)
                         THEN "tpl"
                         ELSE files[q]]
    /\ styles' = IF tpl.files[StylesXml] = NoFile THEN styles
                 ELSE IF files[StylesXml] = NoFile THEN tpl.styles
                      ELSE MergeStyles(tpl.styles, styles)
    /\ pc' = "media"
    /\ UNCHANGED <<run, tpl, orig, doc, docRels, hfRels, ctypes, media_files,
                   rel_files, template_to_new_rids, out, first>>
    /\ UNCHANGED <<ioVars, outerVars>>

UpdateMargins ==
    /\ pc = "margins"
    /\ doc' = MarginsUpdated(doc)
    /\ pc' = "styles"
    /\ UNCHANGED <<run, tpl, orig, files, docRels, hfRels, styles, ctypes,
                   media_files, rel_files, template_to_new_rids, out, first>>
    /\ UNCHANGED <<ioVars, outerVars>>

-----------------------------------------------------------------------------
(* Steps 3-5: media, header/footer parts, their .rels (main.py 196-248) *)

TemplateMediaFiles == {q \in Parts : IsMediaName(q) /\ tpl.files[q] # NoFile}

CopyMedia ==
    /\ pc = "media"
    /\ files' = [q \in Parts |-> IF q \in TemplateMediaFiles THEN "tpl" ELSE files[q]]
    /\ media_files' = TemplateMediaFiles
    /\ pc' = "headerFooter"
    /\ UNCHANGED <<run, tpl, orig, doc, docRels, hfRels, styles, ctypes,
                   rel_files, template_to_new_rids, out, first>>
    /\ UNCHANGED <<ioVars, outerVars>>

CopiedHeaderFooter(q) == q \in header_footer_list /\ tpl.files[q] # NoFile

CopyHeaderFooter ==
    /\ pc = "headerFooter"
    /\ files' = [q \in Parts |-> IF CopiedHeaderFooter(q) THEN "tpl" ELSE files[q]]
    /\ pc' = "relFiles"
    /\ UNCHANGED <<run, tpl, orig, doc, docRels, hfRels, styles, ctypes,
                   media_files, rel_files, template_to_new_rids, out, first>>
    /\ UNCHANGED <<ioVars, outerVars>>

\* the files of the template's word/_rels whose name has "header" or "footer"
TemplateRelFiles == {o \in RelOwners : IsHeaderFooterName(o) /\ tpl.hfRels[o].has}

CopyRelFiles ==
    /\ pc = "relFiles"
    /\ hfRels' = [o \in RelOwners |->
                    IF o \in TemplateRelFiles THEN tpl.hfRels[o] ELSE hfRels[o]]
    /\ rel_files' = TemplateRelFiles
    /\ pc' = "docRels"
    /\ UNCHANGED <<run, tpl, orig, files, doc, docRels, styles, ctypes,
                   media_files, template_to_new_rids, out, first>>
    /\ UNCHANGED <<ioVars, outerVars>>


-----------------------------------------------------------------------------
(* Step 6: the template's relationships go into document.xml.rels          *)
(* (main.py 250-315)                                                       *)

\* a dict as a sequence of [old, new] in insertion order
InDict(m, k) == \E i \in 1..Len(m) : m[i].old = k

DictGet(m, k) == m[CHOOSE i \in 1..Len(m) : m[i].old = k].new

\* m[k] = v: a key already present keeps its place
DictPut(m, k, v) ==
    IF InDict(m, k)
    THEN [i \in 1..Len(m) |-> IF m[i].old = k THEN [old |-> k, new |-> v] ELSE m[i]]
    ELSE Append(m, [old |-> k, new |-> v])

\* a header/footer relationship, or one to a media file copied in step 3
IsImported(rel) == IsHeaderFooterName(rel.Target) \/ rel.Target \in media_files

\* the loop over the template's relationships: [max, map, rels] after it
RECURSIVE ImportLoop(_, _)
ImportLoop(trels, acc) ==
    IF trels = <<>> THEN acc
    ELSE LET rel == Head(trels)
             new_id == MkRid(acc.max + 1)
         IN  IF IsImported(rel)
             THEN ImportLoop(Tail(trels),
                             [max |-> acc.max + 1,
                              map |-> DictPut(acc.map, rel.Id, new_id),
                              rels |-> Append(acc.rels, Rel(new_id, rel.Type, rel.Target))])
             ELSE ImportLoop(Tail(trels), acc)

ImportRelationships(trels, grels) ==
    ImportLoop(trels, [max |-> MaxRid(grels), map |-> <<>>, rels |-> <<>>])

UpdateDocRels ==
    /\ pc = "docRels"
    /\ IF tpl.docRels.has /\ docRels.has
       THEN LET r == ImportRelationships(tpl.docRels.list, docRels.list)
            IN  /\ docRels' = [docRels EXCEPT !.list = @ \o r.rels]
                /\ template_to_new_rids' = r.map
       ELSE /\ docRels' = docRels
            /\ template_to_new_rids' = <<>>
    /\ pc' = "hfRels"
    /\ UNCHANGED <<run, tpl, orig, files, doc, hfRels, styles, ctypes,
                   media_files, rel_files, out, first>>
    /\ UNCHANGED <<ioVars, outerVars>>

-----------------------------------------------------------------------------
(* Step 7: the header/footer .rels files (main.py 318-356) *)

IsMediaRel(rel) == IsMediaName(rel.Target)

\* the target's file (just copied from the template in step 5) gets every
\* media relationship of the template's file appended, under the same Id
ProcessedRelFile(o) ==
    [has |-> TRUE,
     list |-> (IF hfRels[o].has THEN hfRels[o].list ELSE <<>>)
              \o SelectSeq(tpl.hfRels[o].list, IsMediaRel)]

ProcessRelFiles ==
    /\ pc = "hfRels"
    /\ hfRels' = [o \in RelOwners |->
                    IF o \in rel_files THEN ProcessedRelFile(o) ELSE hfRels[o]]
    /\ pc' = "document"
    /\ UNCHANGED <<run, tpl, orig, files, doc, docRels, styles, ctypes,
                   media_files, rel_files, template_to_new_rids, out, first>>
    /\ UNCHANGED <<ioVars, outerVars>>

-----------------------------------------------------------------------------
(* Step 8: header/footer references in document.xml (main.py 358-484) *)

\* a reference of the template: its id mapped, or kept when the dict has no
\* entry for it
MappedRef(ref, m) ==
    IF InDict(m, ref.rid) THEN [ref EXCEPT !.rid = DictGet(m, ref.rid)] ELSE ref

header_footer_refs(m) ==
    LET trefs == Refs(tpl.sect.kids)
    IN  [i \in 1..Len(trefs) |-> MappedRef(trefs[i], m)]

\* a filter that keeps every child: the clean-up of step 8 left out
KeepsEveryChild(c) == TRUE

\* re.sub(r'<w:(header|footer)Reference[^>]*?/>', '', sectPr): what stays
NotRef(c) == ~IsRef(c)

\* position of the first sectPr of the text, nested or not; 0 if none
FirstSect(body) ==
    IF \E i \in 1..Len(body) : body[i].has
    THEN CHOOSE i \in 1..Len(body) :
            body[i].has /\ \A j \in 1..(i - 1) : ~body[j].has
    ELSE 0

\* str.replace of r:id="old" by r:id="new" in the whole sectPr
ReplaceRid(kids, old, new) ==
    [i \in 1..Len(kids) |->
        IF IsRef(kids[i]) /\ kids[i].rid = old THEN [kids[i] EXCEPT !.rid = new]
        ELSE kids[i]]

\* one replace per dict entry, each on the result of the one before
RECURSIVE ReplaceAll(_, _)
ReplaceAll(kids, m) ==
    IF m = <<>> THEN kids
    ELSE ReplaceAll(ReplaceRid(kids, Head(m).old, Head(m).new), Tail(m))

\* the target's first sectPr gets the references; a target without one
\* gets a sectPr in front of </w:body> (body_end), the template's or a new
\* one, and is written back as it is when its text has no </w:body>
DocumentUpdated(d, m) ==
    LET at == FirstSect(d.body)
    IN  IF at > 0
        THEN [d EXCEPT !.body[at].sect =
                            SelectSeq(@, NotRef) \o header_footer_refs(m)]
        ELSE IF ~d.closed
             THEN d
             ELSE IF tpl.sect.has
                  THEN [d EXCEPT !.body =
                                    Append(@, BodySect(ReplaceAll(tpl.sect.kids, m)))]
                  ELSE [d EXCEPT !.body = Append(@, BodySect(header_footer_refs(m)))]

UpdateDocument ==
    /\ pc = "document"
    /\ doc' = DocumentUpdated(doc, template_to_new_rids)
    /\ pc' = "contentTypes"
    /\ UNCHANGED <<run, tpl, orig, files, docRels, hfRels, styles, ctypes,
                   media_files, rel_files, template_to_new_rids, out, first>>
    /\ UNCHANGED <<ioVars, outerVars>>

-----------------------------------------------------------------------------
(* Step 9: [Content_Types].xml (main.py 486-558) *)

IsBrandingPart(q) == IsHeaderFooterName(q) \/ IsMediaName(q)

RECURSIVE AddOverrides(_, _)
AddOverrides(overrides, tovr) ==
    IF tovr = <<>> THEN overrides
    ELSE LET part_name == Head(tovr)
             exists == part_name \in Range(overrides)
         IN  AddOverrides(IF IsBrandingPart(part_name) /\ ~exists
                          THEN Append(overrides, part_name) ELSE overrides,
                          Tail(tovr))

\* a merge of the Defaults without the "exists" test
AppendsEveryDefault(defaults, tdef, exts) ==
    defaults \o SelectSeq(tdef, LAMBDA e : e \in Range(exts))

RECURSIVE AddDefaults(_, _, _)
AddDefaults(defaults, tdef, exts) ==
    IF exts = <<>> THEN defaults
    ELSE LET ext == Head(exts)
             exists == ext \in Range(defaults)
         IN  AddDefaults(IF ~exists /\ ext \in Range(tdef)
                         THEN Append(defaults, ext) ELSE defaults,
                         tdef, Tail(exts))

ContentTypesFixed(t, g) ==
    IF g.has /\ t.has
    THEN [g EXCEPT !.overrides = AddOverrides(@, t.overrides),
                   !.defaults = AddDefaults(@, t.defaults, image_types)]
    ELSE g

FixContentTypes ==
    /\ pc = "contentTypes"
    /\ ctypes' = ContentTypesFixed(tpl.ctypes, ctypes)
    /\ pc' = "archive"
    /\ UNCHANGED <<run, tpl, orig, files, doc, docRels, hfRels, styles,
                   media_files, rel_files, template_to_new_rids, out, first>>
    /\ UNCHANGED <<ioVars, outerVars>>

-----------------------------------------------------------------------------
(* Step 10: the target directory is zipped to output_path (main.py 560-593) *)

CreateArchive ==
    /\ pc = "archive"
    /\ out' = TargetDir
    /\ first' = IF run = 1 THEN TargetDir ELSE first
    /\ pc' = "done"
    /\ UNCHANGED <<run, tpl, orig, files, doc, docRels, hfRels, styles, ctypes,
                   media_files, rel_files, template_to_new_rids>>
    /\ UNCHANGED <<ioVars, outerVars>>

\* the archive step raises: shutil.make_archive itself, os.remove of the
\* file at output_path (the zip then stays where it is), or os.rename after
\* the remove: the file that was at output_path is gone by then, and the zip
\* stays unless its absence is what made the rename raise.  The handler
\* writes <base>_alt.zip with ZipFile and renames it to <base>_alt.docx; it
\* may raise before the zip is written or in the rename, which leaves the
\* zip.  Either way the exception is printed and the function returns
ArchiveFails ==
    /\ pc = "archive"
    /\ \E raised \in {"make_archive", "remove", "rename"}, zip_left \in BOOLEAN,
          alt \in {"none", "zip", "docx"} :
          /\ zip_path' = IF raised = "remove" \/ (raised = "rename" /\ zip_left)
                         THEN TargetDir ELSE zip_path
          /\ out' = IF raised = "rename" THEN NoPackage ELSE out
          /\ alt_zip_path' = IF alt = "zip" THEN TargetDir ELSE alt_zip_path
          /\ alt_output' = IF alt = "docx" THEN TargetDir ELSE alt_output
    /\ pc' = "returned"
    /\ UNCHANGED <<run, tpl, orig, files, doc, docRels, hfRels, styles, ctypes,
                   media_files, rel_files, template_to_new_rids, first>>
    /\ UNCHANGED outerVars

\* apply_branding_to_docx is called again, with the output as its input:
\* the package is extracted into a fresh target directory (main.py 75-90)
Rerun ==
    /\ pc = "done"
    /\ run < MaxRuns
    /\ run' = run + 1
    /\ files' = out.files
    /\ doc' = out.doc
    /\ docRels' = out.docRels
    /\ hfRels' = out.hfRels
    /\ styles' = out.styles
    /\ ctypes' = out.ctypes
    /\ media_files' = {}
    /\ rel_files' = {}
    /\ template_to_new_rids' = <<>>
    /\ pc' = "margins"
    /\ UNCHANGED <<tpl, orig, out, first>>
    /\ UNCHANGED <<ioVars, outerVars>>

-----------------------------------------------------------------------------
(* The packages the engine is run on *)

BaseInput ==
    [hf |-> {Header1, Footer1}, base |-> 0, shape |-> "word", geom |-> "a4",
     hdrMedia |-> FALSE, media |-> {}, docImg |-> FALSE, tstyles |-> "hf",
     extra |-> {}, dok |-> TRUE, usesR |-> TRUE, dshape |-> "top", drels |-> 1,
     otherId |-> FALSE, gstyles |-> "own", gmedia |-> FALSE, gtheme |-> FALSE,
     gct |-> TRUE, dend |-> TRUE]

\* relationships: the template's header/footer parts and ids, the target's
RelInputs ==
    {[BaseInput EXCEPT !.hf = a, !.base = b, !.hdrMedia = c, !.docImg = d,
                       !.drels = e, !.otherId = f, !.usesR = g] :
        a \in {{}, {Header1}, {Header1, Footer1}, {Header1, Footer1, Header4}},
        b \in {0, 1}, c \in BOOLEAN, d \in BOOLEAN, e \in -1..MaxTgtRels,
        f \in BOOLEAN, g \in BOOLEAN}

\* section properties: the template's children and their order, the target's
SectInputs ==
    {[BaseInput EXCEPT !.hf = a, !.shape = b, !.geom = c, !.dshape = d,
                       !.dok = e, !.usesR = f] :
        a \in {{}, {Header1, Footer1}, {Header1, Footer1, Header4}},
        b \in {"word", "footerFirst", "geomFirst", "none"},
        c \in {"a4", "letter", "none"},
        d \in {"none", "top", "topOwn", "nested"},
        e \in BOOLEAN, f \in BOOLEAN}

\* styles and the other style files
StyleInputs ==
    {[BaseInput EXCEPT !.tstyles = a, !.gstyles = b, !.extra = c, !.gtheme = d] :
        a \in {"none", "hf", "brand", "bad"},
        b \in {"none", "own", "ownHeader", "bad"},
        c \in {{}, {ThemeXml, NumberingXml}, {ThemeXml, FontTableXml, SettingsXml}},
        d \in BOOLEAN}

\* media and content types; the target with or without its root manifest
TypeInputs ==
    {[BaseInput EXCEPT !.media = a, !.hdrMedia = b, !.gmedia = c, !.hf = d,
                       !.gct = e] :
        a \in SUBSET {Image1Png, LogoEmf}, b \in BOOLEAN, c \in BOOLEAN,
        d \in {{Header1, Footer1}, {Header1, Footer1, Header4}}, e \in BOOLEAN}

\* a target without section properties whose document.xml step 1 cannot
\* parse, so that step 8 adds the template's sectPr as text; the template's
\* ids and the number of the target's relationships vary
TextInputs ==
    {[BaseInput EXCEPT !.dok = FALSE, !.dshape = "none", !.hf = a, !.base = b,
                       !.tstyles = c, !.drels = d] :
        a \in {{Header1, Footer1}, {Header1, Footer1, Header4}},
        b \in {0, 1}, c \in {"none", "hf"}, d \in 1..MaxTgtRels}

\* a target whose document.xml is cut off before </w:body>, with and without
\* section properties in what is left of it
CutInputs ==
    {[BaseInput EXCEPT !.dok = FALSE, !.dend = FALSE, !.dshape = a, !.shape = b,
                       !.hf = c] :
        a \in {"none", "top", "nested"},
        b \in {"word", "footerFirst", "none"},
        c \in {{Header1, Footer1}, {Header1, Footer1, Header4}}}

Inputs ==
    RelInputs \cup SectInputs \cup StyleInputs \cup TypeInputs \cup TextInputs
        \cup CutInputs

\* the template package as it is on disk before any run
TemplateFile == [what |-> "template", src |-> 0]

\* no batch is running
BatchIdle ==
    /\ TEMPLATE_DOCX = TemplateFile
    /\ INPUT_DIR = <<>>
    /\ OUTPUT_DIR = <<>>
    /\ existing = <<>>
    /\ idx = 0
    /\ bpc = "idle"
    /\ input_kind = "none"
    /\ trace = <<>>

\* no call of a function checked on its own is in progress
CallIdle ==
    /\ template_doc = <<>>
    /\ content_doc = <<>>
    /\ ppc = "idle"
    /\ sect_pr_element = <<>>
    /\ mpc = "idle"

\* no job is queued
JobIdle ==
    /\ processing_jobs = <<>>
    /\ upload_dir = <<>>
    /\ output_dir = <<>>
    /\ processed_files = <<>>
    /\ jidx = 0
    /\ jpc = "idle"
    /\ visited = <<>>
    /\ error_log = <<>>
    /\ exc = "None"
    /\ downloads = {}
    /\ dpc = "idle"
    /\ uploaded = {}
    /\ dirs = <<>>
    /\ listed = {}
    /\ entries = {}

\* no requests run in parallel
PoolIdle ==
    /\ requests = <<>>
    /\ disk = <<>>

Init ==
    \E p \in Inputs :
        /\ tpl = Template(p)
        /\ orig = Target(p)
        /\ files = Target(p).files
        /\ doc = Target(p).doc
        /\ docRels = Target(p).docRels
        /\ hfRels = Target(p).hfRels
        /\ styles = Target(p).styles
        /\ ctypes = Target(p).ctypes
        /\ media_files = {}
        /\ rel_files = {}
        /\ template_to_new_rids = <<>>
        /\ out = NoPackage
        /\ first = NoPackage
        /\ zip_path = NoPackage
        /\ alt_output = NoPackage
        /\ alt_zip_path = NoPackage
        /\ pc = "margins"
        /\ run = 1
        /\ BatchIdle
        /\ JobIdle
        /\ CallIdle
        /\ PoolIdle

Next ==
    \/ UpdateMargins
    \/ CopyStyleFiles
    \/ CopyMedia
    \/ CopyHeaderFooter
    \/ CopyRelFiles
    \/ UpdateDocRels
    \/ ProcessRelFiles
    \/ UpdateDocument
    \/ FixContentTypes
    \/ CreateArchive
    \/ ArchiveFails
    \/ Rerun

Spec == Init /\ [][Next]_vars

-----------------------------------------------------------------------------
(* Properties of the output package *)

Ids(rels) == [i \in 1..Len(rels) |-> rels[i].Id]

NoDup(s) == \A i, j \in 1..Len(s) : s[i] = s[j] => i = j

\* the first call has returned / a later call has returned
FirstDone == pc = "done" /\ run = 1

AgainDone == pc = "done" /\ run > 1

\* the children of the section properties the engine wrote its references to
WrittenSect(d) ==
    IF FirstSect(d.body) > 0 THEN d.body[FirstSect(d.body)].sect ELSE <<>>

SectCount(d) == Cardinality({i \in 1..Len(d.body) : d.body[i].has})

RefCount(d) ==
    Cardinality(UNION {{<<i, j>> : j \in {k \in 1..Len(d.body[i].sect) :
                                             IsRef(d.body[i].sect[k])}} :
                       i \in 1..Len(d.body)})

IsGeometry(c) == c.tag \in {"pgSz", "pgMar"}

Geometry(kids) == SelectSeq(kids, IsGeometry)

Category(c) ==
    CASE c.tag = "type" -> 1
      [] c.tag = "pgSz" -> 2
      [] c.tag = "pgMar" -> 3
      [] c.tag = "headerReference" -> 4
      [] c.tag = "footerReference" -> 5
      [] c.tag = "cols" -> 6
      [] OTHER -> 7

InCategoryOrder(kids) ==
    \A i \in 1..(Len(kids) - 1) : Category(kids[i]) <= Category(kids[i + 1])

CountPair(rels, type, target) ==
    Cardinality({i \in 1..Len(rels) :
                    rels[i].Type = type /\ rels[i].Target = target})

Covered(pkg, q) ==
    q \in Range(pkg.ctypes.overrides) \/ q.ext \in Range(pkg.ctypes.defaults)

IsStyle(k) == k.tag = "style"

StyleIdList(kids) ==
    LET st == SelectSeq(kids, IsStyle) IN [i \in 1..Len(st) |-> st[i].id]

\* C1: after the merge of a template and a target whose relationship
\* collections have unique ids, no two relationships of word/_rels/
\* document.xml.rels, nor of any header/footer .rels file of the output,
\* share an Id.
C1_UniqueRelationshipIds ==
    FirstDone =>
        /\ NoDup(Ids(out.docRels.list))
        /\ \A o \in RelOwners : NoDup(Ids(out.hfRels[o].list))

\* C2: every headerReference/footerReference the engine writes into the
\* output's section properties carries an id that is a new id of the import's
\* old-id to new-id mapping and that resolves in the output's
\* document.xml.rels to a relationship whose target is a header/footer part;
\* a raw template id is never written.
C2_ReferencesResolveThroughMapping ==
    FirstDone =>
        \A c \in Range(Refs(WrittenSect(out.doc))) :
            /\ \E i \in 1..Len(template_to_new_rids) :
                    template_to_new_rids[i].new = c.rid
            /\ \E j \in 1..Len(out.docRels.list) :
                    /\ out.docRels.list[j].Id = c.rid
                    /\ IsHeaderFooterName(out.docRels.list[j].Target)

\* C3: every relationship of the output package points to a part that exists
\* in the output, also when the template's header/footer parts are named
\* outside header1-3.xml / footer1-3.xml.
C3_RelationshipTargetsExist ==
    FirstDone =>
        /\ \A r \in Range(out.docRels.list) : out.files[r.Target] # NoFile
        /\ \A o \in RelOwners :
              \A r \in Range(out.hfRels[o].list) : out.files[r.Target] # NoFile

\* C4: for every part of the output package (the target's own parts and the
\* media, header/footer and style parts copied from the template) a content
\* type rule applies: an Override for its path or a Default for its extension.
C4_EveryPartHasContentType ==
    FirstDone => \A q \in Parts : out.files[q] # NoFile => Covered(out, q)

\* C5: the children of the output's section properties appear in the category
\* order section type, page size, page margins, header references, footer
\* references, column layout, document grid, whatever the order in the
\* template's section properties.
C5_SectionChildrenInMandatedOrder ==
    FirstDone => InCategoryOrder(WrittenSect(out.doc))

\* C6: the output document holds exactly one section-properties element, a
\* child of the body: every section-properties element of the target, nested
\* in a paragraph or not, is gone, and the header/footer references are in
\* that one element.
C6_ExactlyOneSectionProperties ==
    FirstDone =>
        /\ SectCount(out.doc) = 1
        /\ out.doc.body[FirstSect(out.doc.body)].tag = "sectPr"
        /\ Len(Refs(WrittenSect(out.doc))) = Len(Refs(tpl.sect.kids))

\* C7: the page size and page margins of the output's section properties are
\* the template's whenever the template's section properties declare them,
\* and the A4 defaults (11906 x 16838, margins 1440, header/footer 720) only
\* when the template declares none.
C7_GeometryFromTemplate ==
    FirstDone =>
        Geometry(WrittenSect(out.doc)) =
            IF Geometry(tpl.sect.kids) # <<>> THEN Geometry(tpl.sect.kids)
            ELSE <<PgSz(A4Width, A4Height), PgMar(StdMargin, StdHeaderFooter)>>

\* C8: the import reuses a relationship the target already holds for the same
\* (type, target) and adds no entry, so that a run on an already merged
\* package leaves the number of relationships per (type, target) unchanged.
C8_RerunAddsNoRelationship ==
    AgainDone =>
        \A r \in Range(out.docRels.list) :
            CountPair(out.docRels.list, r.Type, r.Target)
                = CountPair(first.docRels.list, r.Type, r.Target)

\* C9: running the engine again on its own output, with the same template,
\* yields the same number of header/footer references in the section
\* properties and the same style ids, each once, as the first run.
C9_RerunKeepsReferencesAndStyles ==
    AgainDone =>
        /\ RefCount(out.doc) = RefCount(first.doc)
        /\ Range(StyleIdList(out.styles.kids)) = Range(StyleIdList(first.styles.kids))
        /\ NoDup(StyleIdList(out.styles.kids))

\* a second run has returned on a document that holds the template's two
\* references, which the second run had to clean before writing them again
C9_RerunOnBrandedDocument ==
    /\ AgainDone
    /\ RefCount(first.doc) = 2
    /\ RefCount(out.doc) = 2
    /\ ~ParseOk(first.doc)
    /\ StyleIdList(out.styles.kids) # <<>>

\* C10: when template and target both have a style part, every style of the
\* template whose id is not in the target's style collection is in the
\* output's style collection.
C10_TemplateStylesImported ==
    (FirstDone /\ tpl.styles.has /\ orig.styles.has) =>
        \A id \in Range(StyleIdList(tpl.styles.kids)) :
            id \notin Range(StyleIdList(orig.styles.kids))
                => id \in StyleIdsOf(out.styles.kids)

-----------------------------------------------------------------------------
(* Properties of the style, theme, media and content-type merge *)

StyleFrameParts == {NumberingXml, FontTableXml, SettingsXml}

\* C11: a style the target's style collection defined before the merge has
\* the same definition in the output, on every path of the style merge, the
\* one taken when the merge raises included.
C11_TargetStyleDefinitionsKept ==
    (FirstDone /\ orig.styles.has) =>
        \A k \in Range(orig.styles.kids) :
            IsStyle(k) => k \in Range(out.styles.kids)

\* C12: whenever the template has a theme part, the output's theme part is
\* the template's, also when the target had a theme part of its own.
C12_ThemeFromTemplate ==
    (FirstDone /\ tpl.files[ThemeXml] # NoFile) => out.files[ThemeXml] = "tpl"

\* C13: the numbering, font-table and settings parts of the output are the
\* target's whenever the target had them, and the template's copy only when
\* the target lacked the part.
C13_TargetPartsPreferred ==
    FirstDone =>
        \A q \in StyleFrameParts :
            out.files[q] = IF orig.files[q] # NoFile THEN "tgt" ELSE tpl.files[q]

\* template and target both have settings.xml, and the template has a font
\* table the target lacks: the first is kept, the second copied
C13_SharedAndMissingPart ==
    /\ FirstDone
    /\ tpl.files[SettingsXml] # NoFile
    /\ orig.files[SettingsXml] # NoFile
    /\ out.files[SettingsXml] = "tgt"
    /\ orig.files[FontTableXml] = NoFile
    /\ out.files[FontTableXml] = "tpl"

\* C14: every media part of the template is in the output's media store, and
\* a media part the target already had keeps its content: a template media
\* part of the same path does not replace it.
C14_TargetMediaKept ==
    FirstDone =>
        /\ \A q \in Parts :
              (IsMediaName(q) /\ tpl.files[q] # NoFile) =>
                  \E r \in Parts : IsMediaName(r) /\ out.files[r] = "tpl"
        /\ \A q \in Parts :
              (IsMediaName(q) /\ orig.files[q] # NoFile) => out.files[q] = "tgt"

\* C15: after the content-type merge the output's [Content_Types].xml has no
\* two Overrides for the same part path and no two Defaults for the same
\* extension.
C15_NoDuplicateContentTypeRules ==
    pc = "done" =>
        /\ NoDup(out.ctypes.overrides)
        /\ NoDup(out.ctypes.defaults)

\* the merge added an Override and a Default, and met a Default (xml) and, on
\* the second run, Overrides that were already there
C15_RulesAddedAndSkipped ==
    /\ AgainDone
    /\ Header1 \in Range(out.ctypes.overrides)
    /\ Header1 \notin Range(orig.ctypes.overrides)
    /\ "png" \in Range(out.ctypes.defaults)
    /\ "png" \notin Range(orig.ctypes.defaults)

-----------------------------------------------------------------------------
(* Properties of the archive step *)

\* the call has returned to its caller without raising
Returned == pc \in {"done", "returned"}

\* C18: a call apply_branding_to_docx(input_path, output_path) that returns
\* without raising has left a package at output_path; it never returns as a
\* success with no file written there, whichever internal step failed.
C18_ReturnMeansOutputWritten ==
    (run = 1 /\ Returned) => out # NoPackage

-----------------------------------------------------------------------------
(* The batch of fixed_main.py: batch_process and the three strategies       *)
(* (create_consistent_document, the zip-level merge, the fallback copy)     *)

MaxFiles == 2

Bases == {"a", "b"}

\* a file of INPUT_DIR: <base>.<ext>; kind says what the readers make of it
\*   docx  "ok"             python-docx and ZipFile both read it
\*         "unauthorable"   a zip that python-docx cannot load or re-author
\*         "corrupt"        not a zip
\*   pdf   "ok", "corrupt"  converted, to a docx of that kind
\*         "unconvertible"  Converter raises
File(b, e, k) == [base |-> b, ext |-> e, kind |-> k]

FileKinds(e) ==
    CASE e = "docx" -> {"ok", "unauthorable", "corrupt"}
      [] e = "pdf" -> {"ok", "corrupt", "unconvertible"}
      [] OTHER -> {"ok"}

AllFiles ==
    UNION {{File(b, e, k) : k \in FileKinds(e)} :
           <<b, e>> \in Bases \X {"docx", "pdf", "txt"}}

\* os.listdir(INPUT_DIR): distinct file names in any order
Listings ==
    UNION {{l \in [1..n -> AllFiles] :
              \A i, j \in 1..n :
                 (l[i].base = l[j].base /\ l[i].ext = l[j].ext) => i = j} :
           n \in 1..MaxFiles}

\* a file name of OUTPUT_DIR: <base><tag>.<ext>
Name(b, t, e) == [base |-> b, tag |-> t, ext |-> e]

Names ==
    [base : Bases, tag : {"", "_alt", "_fallback", "_converted"},
     ext : {"docx", "pdf", "zip"}]

\* the content of a file: what it is and the input file it was made for
Content(w, i) == [what |-> w, src |-> i]

NoContent == Content("none", 0)

Previous == Content("previous", 0)

\* os.remove(path) can raise only for a file that is there
CanRaise(raised, dir, path) == raised = "remove" => dir[path] # NoContent

filename == INPUT_DIR[idx]

output_path == Name(filename.base, "", "docx")

temp_docx == Name(filename.base, "_converted", "docx")

temp_fallback == Name(filename.base, "_fallback", filename.ext)

Logged(events) == [trace EXCEPT ![idx] = @ \o events]

\* the loop head: the next file name and the branch on its extension
NextFile ==
    /\ bpc = "loop"
    /\ idx < Len(INPUT_DIR)
    /\ idx' = idx + 1
    /\ bpc' = CASE INPUT_DIR[idx + 1].ext = "docx" -> "primary"
                [] INPUT_DIR[idx + 1].ext = "pdf" -> "convert"
                [] OTHER -> "loop"
    /\ input_kind' = IF INPUT_DIR[idx + 1].ext = "docx"
                     THEN INPUT_DIR[idx + 1].kind ELSE "none"
    /\ UNCHANGED <<INPUT_DIR, OUTPUT_DIR, existing, trace>>
    /\ UNCHANGED <<engineVars, poolVars, jobVars, callVars, TEMPLATE_DOCX>>

\* convert_pdf_to_docx and the branch on its result; when the copy of an
\* unconvertible file raises, the except branch makes it again
ConvertPdf ==
    /\ bpc = "convert"
    /\ IF filename.kind = "unconvertible"
       THEN /\ \E copied \in BOOLEAN :
                  IF copied
                  THEN /\ OUTPUT_DIR' = [OUTPUT_DIR EXCEPT
                                            ![Name(filename.base, "_fallback", "pdf")] =
                                                Content("original", idx)]
                       /\ trace' = Logged(<<"PassThrough">>)
                       /\ bpc' = "loop"
                  ELSE /\ bpc' = "passthrough"
                       /\ UNCHANGED <<OUTPUT_DIR, trace>>
            /\ UNCHANGED input_kind
       ELSE /\ OUTPUT_DIR' = [OUTPUT_DIR EXCEPT ![temp_docx] = Content("converted", idx)]
            /\ input_kind' = filename.kind
            /\ bpc' = "primary"
            /\ UNCHANGED trace
    /\ UNCHANGED <<INPUT_DIR, existing, idx>>
    /\ UNCHANGED <<engineVars, poolVars, jobVars, callVars, TEMPLATE_DOCX>>

\* a strategy that hands every failed primary merge to the fallback copy
SkipsFallbackMerge(kind) == IF kind = "ok" THEN "branded" ELSE "passthrough"

\* apply_branding_to_docx after create_consistent_document: return on True,
\* the zip-level merge on False
AfterPrimary(kind) == IF kind = "ok" THEN "branded" ELSE "fallback"

\* a copy in the wrong direction: what output_path held is put in the
\* place of the template
CopiesOntoTemplate(template, previous) == [template |-> previous, shell |-> previous]

\* shutil.copy2(TEMPLATE_DOCX, output_path): the template is read and
\* output_path becomes the shell, a copy of it
ShellCopy(template, previous) == [template |-> template, shell |-> template]

\* create_consistent_document: the template is copied to output_path, then
\* the copy and the input are loaded, the content is re-authored into the
\* copy and it is saved at output_path; an exception anywhere returns False,
\* and when the copy itself raises output_path is left as it was
PrimaryMerge ==
    /\ bpc = "primary"
    /\ \E shell \in BOOLEAN :
          LET copied == ShellCopy(TEMPLATE_DOCX, OUTPUT_DIR[output_path])
              result == IF shell THEN input_kind ELSE "uncopied"
          IN  /\ TEMPLATE_DOCX' = IF shell THEN copied.template ELSE TEMPLATE_DOCX
              /\ OUTPUT_DIR' = [OUTPUT_DIR EXCEPT
                                   ![output_path] =
                                       CASE result = "ok" -> Content("branded", idx)
                                         [] shell -> Content(copied.shell.what, idx)
                                         [] OTHER -> @]
              /\ trace' = Logged(<<"PrimaryMerge",
                                   IF result = "ok" THEN "Success" ELSE "PrimaryFailed">>)
              /\ bpc' = AfterPrimary(result)
    /\ UNCHANGED <<INPUT_DIR, existing, idx, input_kind>>
    /\ UNCHANGED <<engineVars, poolVars, jobVars, callVars>>

\* the zip-level merge up to the archive step: ZipFile(input_path) raises on
\* a file that is no zip, and nothing catches it before batch_process
FallbackMerge ==
    /\ bpc = "fallback"
    /\ IF input_kind = "corrupt"
       THEN /\ trace' = Logged(<<"FallbackMerge", "FallbackFailed">>)
            /\ bpc' = "passthrough"
       ELSE /\ trace' = Logged(<<"FallbackMerge">>)
            /\ bpc' = "archive"
    /\ UNCHANGED <<INPUT_DIR, OUTPUT_DIR, existing, idx, input_kind>>
    /\ UNCHANGED <<engineVars, poolVars, jobVars, callVars, TEMPLATE_DOCX>>

\* make_archive, os.remove of the file at output_path, os.rename
FallbackArchive ==
    /\ bpc = "archive"
    /\ OUTPUT_DIR' = [OUTPUT_DIR EXCEPT ![output_path] = Content("degraded", idx),
                                        ![Name(filename.base, "", "zip")] = NoContent]
    /\ trace' = Logged(<<"Success">>)
    /\ bpc' = "branded"
    /\ UNCHANGED <<INPUT_DIR, existing, idx, input_kind>>
    /\ UNCHANGED <<engineVars, poolVars, jobVars, callVars, TEMPLATE_DOCX>>

\* one of the three calls raises; the handler writes <base>_alt.zip and
\* renames it to <base>_alt.docx, or raises too, before the zip is written or
\* in the rename, which leaves the zip; the exception is printed and the
\* function returns
FallbackArchiveFails ==
    /\ bpc = "archive"
    /\ \E raised \in {"make_archive", "remove", "rename"},
          alt \in {"none", "zip", "docx"} :
          /\ CanRaise(raised, OUTPUT_DIR, output_path)
          /\ OUTPUT_DIR' =
                [OUTPUT_DIR EXCEPT
                    ![Name(filename.base, "", "zip")] =
                        IF raised = "make_archive" THEN @ ELSE Content("degraded", idx),
                    ![output_path] = IF raised = "rename" THEN NoContent ELSE @,
                    ![Name(filename.base, "_alt", "zip")] =
                        CASE alt = "zip" -> Content("degraded", idx)
                          [] alt = "docx" -> NoContent
                          [] OTHER -> @,
                    ![Name(filename.base, "_alt", "docx")] =
                        IF alt = "docx" THEN Content("degraded", idx) ELSE @]
    /\ trace' = Logged(<<"ArchiveFailed">>)
    /\ bpc' = "branded"
    /\ UNCHANGED <<INPUT_DIR, existing, idx, input_kind>>
    /\ UNCHANGED <<engineVars, poolVars, jobVars, callVars, TEMPLATE_DOCX>>

\* apply_branding_to_docx has returned: the converted file is removed; when
\* os.remove raises the file stays and the except branch takes over
Completed ==
    /\ bpc = "branded"
    /\ \E cleaned \in BOOLEAN :
          /\ ~cleaned => filename.ext = "pdf"
          /\ OUTPUT_DIR' = IF filename.ext = "pdf" /\ cleaned
                           THEN [OUTPUT_DIR EXCEPT ![temp_docx] = NoContent]
                           ELSE OUTPUT_DIR
          /\ bpc' = IF cleaned THEN "loop" ELSE "passthrough"
    /\ UNCHANGED <<INPUT_DIR, existing, idx, input_kind, trace>>
    /\ UNCHANGED <<engineVars, poolVars, jobVars, callVars, TEMPLATE_DOCX>>

\* the except branch of batch_process: the input file is copied to
\* <base>_fallback<ext>; when the copy raises too, that is printed
PassThrough ==
    /\ bpc = "passthrough"
    /\ \E copied \in BOOLEAN :
          /\ OUTPUT_DIR' = IF copied
                           THEN [OUTPUT_DIR EXCEPT ![temp_fallback] = Content("original", idx)]
                           ELSE OUTPUT_DIR
          /\ trace' = Logged(<<"PassThrough">> \o
                             (IF copied THEN <<>> ELSE <<"FailureReported">>))
    /\ bpc' = "loop"
    /\ UNCHANGED <<INPUT_DIR, existing, idx, input_kind>>
    /\ UNCHANGED <<engineVars, poolVars, jobVars, callVars, TEMPLATE_DOCX>>

\* the listing is exhausted
BatchFinished ==
    /\ bpc = "loop"
    /\ idx = Len(INPUT_DIR)
    /\ bpc' = "finished"
    /\ UNCHANGED <<INPUT_DIR, OUTPUT_DIR, existing, idx, input_kind, trace>>
    /\ UNCHANGED <<engineVars, poolVars, jobVars, callVars, TEMPLATE_DOCX>>

\* no call of main.py's engine is in progress
EngineIdle ==
    /\ pc = "idle"
    /\ run = 0
    /\ tpl = NoPackage
    /\ orig = NoPackage
    /\ files = NoPackage.files
    /\ doc = NoPackage.doc
    /\ docRels = NoPackage.docRels
    /\ hfRels = NoPackage.hfRels
    /\ styles = NoPackage.styles
    /\ ctypes = NoPackage.ctypes
    /\ media_files = {}
    /\ rel_files = {}
    /\ template_to_new_rids = <<>>
    /\ out = NoPackage
    /\ first = NoPackage
    /\ zip_path = NoPackage
    /\ alt_output = NoPackage
    /\ alt_zip_path = NoPackage

BatchInit ==
    /\ EngineIdle
    /\ JobIdle
    /\ CallIdle
    /\ PoolIdle
    /\ TEMPLATE_DOCX = TemplateFile
    /\ \E l \in Listings, prev \in SUBSET Bases :
          /\ INPUT_DIR = l
          /\ existing = [n \in Names |->
                            IF n.tag = "" /\ n.ext = "docx" /\ n.base \in prev
                            THEN Previous ELSE NoContent]
          /\ OUTPUT_DIR = existing
          /\ trace = [i \in 1..Len(l) |-> <<>>]
    /\ idx = 0
    /\ bpc = "loop"
    /\ input_kind = "none"

BatchNext ==
    \/ NextFile
    \/ ConvertPdf
    \/ PrimaryMerge
    \/ FallbackMerge
    \/ FallbackArchive
    \/ FallbackArchiveFails
    \/ Completed
    \/ PassThrough
    \/ BatchFinished

BatchSpec == BatchInit /\ [][BatchNext]_vars

\* the loop and every call in it terminate: each step is eventually taken
BatchFairSpec == BatchSpec /\ WF_vars(BatchNext)

(***************************************************************************)
(* Claims about the batch                                                   *)

\* the files the loop gives a branch to
Supported(i) == INPUT_DIR[i].ext \in {"docx", "pdf"}

\* the documents handed to apply_branding_to_docx: a .docx file, or the
\* .docx the converter made of a .pdf file
Composed(i) ==
    \/ INPUT_DIR[i].ext = "docx"
    \/ INPUT_DIR[i].ext = "pdf" /\ INPUT_DIR[i].kind # "unconvertible"

Occurs(t, e) == \E p \in DOMAIN t : t[p] = e

\* the strategies of one document in the order of its log
StrategyOrder(t) ==
    /\ t # <<>> => t[1] = "PrimaryMerge"
    /\ \A p \in DOMAIN t :
          /\ t[p] = "PrimaryMerge" => p = 1
          /\ t[p] = "FallbackMerge" => p > 1 /\ t[p - 1] = "PrimaryFailed"
          /\ t[p] = "PassThrough" => p > 2 /\ t[p - 1] = "FallbackFailed"
                                           /\ t[p - 2] = "FallbackMerge"
          /\ t[p] = "Success" => p = Len(t)
          /\ \A q \in DOMAIN t :
                (t[q] = t[p] /\ t[p] \in {"PrimaryMerge", "FallbackMerge", "PassThrough"})
                    => p = q

\* the document has left the loop body
Done(i) ==
    /\ i < idx \/ bpc \in {"loop", "finished"}
    /\ i <= idx
    /\ \/ Occurs(trace[i], "Success")
       \/ Occurs(trace[i], "ArchiveFailed")
       \/ Occurs(trace[i], "PassThrough")

BatchDone == bpc = "finished" /\ \A i \in DOMAIN INPUT_DIR : Supported(i) => Done(i)

\* C16: for every document handed to composition the strategies are
\* attempted in the order PrimaryMerge, FallbackMerge, PassThrough:
\* FallbackMerge starts only after PrimaryMerge has failed, PassThrough only
\* after FallbackMerge has failed too, nothing runs after a success, and
\* every document of the batch eventually is done
C16_StrategiesInOrderAndDone ==
    /\ [](\A i \in DOMAIN INPUT_DIR : Composed(i) => StrategyOrder(trace[i]))
    /\ <>[]BatchDone

\* a finished batch with a document that went through all three strategies
C16_AllThreeStrategiesRun ==
    /\ bpc = "finished"
    /\ \E i \in DOMAIN INPUT_DIR :
          /\ Composed(i)
          /\ Len(trace[i]) >= 5
          /\ trace[i][1] = "PrimaryMerge"
          /\ trace[i][3] = "FallbackMerge"
          /\ trace[i][5] = "PassThrough"

\* the files of OUTPUT_DIR written for input file i
Artifacts(i) == {n \in Names : OUTPUT_DIR[n] # NoContent /\ OUTPUT_DIR[n].src = i}

\* the failure of the fallback copy was printed for input file i
FailureRecord(i) == Occurs(trace[i], "FailureReported")

Outcomes(i) == Cardinality(Artifacts(i)) + (IF FailureRecord(i) THEN 1 ELSE 0)

\* C17: after the batch has finished every supported input file has exactly
\* one outcome: one file in OUTPUT_DIR (branded, degraded or the unmodified
\* copy) or a printed failure, never none and never more than one
C17_ExactlyOneOutcome ==
    bpc = "finished" =>
        \A i \in DOMAIN INPUT_DIR : Supported(i) => Outcomes(i) = 1

\* output_path of input file i
OutputPathOf(i) == Name(INPUT_DIR[i].base, "", "docx")

\* every strategy that writes output_path has failed for document i
CompositionFailed(i) ==
    /\ Composed(i)
    /\ Occurs(trace[i], "PrimaryFailed")
    /\ Occurs(trace[i], "FallbackFailed") \/ Occurs(trace[i], "ArchiveFailed")

\* no other file of the listing has the same output_path
SoleWriter(i) ==
    \A j \in DOMAIN INPUT_DIR : INPUT_DIR[j].base = INPUT_DIR[i].base => j = i

\* C19: when the composition of a document has failed, output_path holds
\* what it held before the batch (the previous file, or no file): never a
\* bare copy of the template or another partial result
C19_FailureLeavesOutputPathUntouched ==
    \A i \in DOMAIN INPUT_DIR :
        (CompositionFailed(i) /\ SoleWriter(i))
            => OUTPUT_DIR[OutputPathOf(i)] = existing[OutputPathOf(i)]

(***************************************************************************)
(* The background task of app.py: process_documents, which calls           *)
(* apply_branding_to_docx and convert_pdf_to_docx of main.py                *)

\* a file of the upload directory: <base><tag>.<ext>; an uploaded document may
\* carry the name the task gives to a converted pdf
Upload(f, t) == [base |-> f.base, tag |-> t, ext |-> f.ext, kind |-> f.kind]

\* upload_files saves only .docx and .pdf files; main.py's merge reads the
\* input as a zip, so a .docx is "ok" or "corrupt" for it
Uploads ==
    {Upload(f, "") : f \in {g \in AllFiles : g.ext \in {"docx", "pdf"} /\ g.kind # "unauthorable"}}
        \cup {Upload(f, "_converted") :
                 f \in {g \in AllFiles : g.ext = "docx" /\ g.kind # "unauthorable"}}

\* os.listdir(upload_dir): distinct file names in any order
JobListings ==
    UNION {{l \in [1..n -> Uploads] :
              \A i, j \in 1..n :
                 (l[i].base = l[j].base /\ l[i].tag = l[j].tag /\ l[i].ext = l[j].ext)
                     => i = j} :
           n \in 1..MaxFiles}

\* the file names of the job's output directory
JobNames ==
    Names \cup {Name(b, "_converted_alt", e) : b \in Bases, e \in {"docx", "zip"}}

\* the entry upload_files makes in processing_jobs
QueuedJob ==
    [status |-> "queued", processed_files |-> <<>>, completed_at |-> "None",
     error |-> "None"]

\* output_path (a .docx) and output_docx (a .pdf) of an uploaded file
JobOutputName(f) == Name(f.base, f.tag, "docx")

\* temp_docx_path of an uploaded .pdf
JobConvertedName(f) == Name(f.base, "_converted", "docx")

\* a handler that gives the job up at the first file that fails
AbortsJobOnFileError(status) == [next |-> "returned", status |-> "failed"]

\* the except branch inside the loop: the error is logged, the loop goes on
\* and the entry of the job is left as it is
FileErrorHandler(status) == [next |-> "loop", status |-> status]

\* job_id is a key of processing_jobs
Tracked == processing_jobs # <<>>

\* what a call of apply_branding_to_docx of main.py that returns leaves in the
\* output directory: the package at output_path (o), or after a failed archive
\* step (raised, alt as in ArchiveFails) the zip, <base>_alt.zip or
\* <base>_alt.docx, where <base> is output_path without its extension; a
\* rename that succeeds takes the zip away
Composition(dir, o, i, raised, alt) ==
    [dir EXCEPT
        ![o] = CASE raised = "none" -> Content("branded", i)
                 [] raised = "rename" -> NoContent
                 [] OTHER -> @,
        ![Name(o.base, o.tag, "zip")] =
            CASE raised = "none" -> NoContent
              [] raised = "make_archive" -> @
              [] OTHER -> Content("branded", i),
        ![Name(o.base, o.tag \o "_alt", "zip")] =
            CASE raised # "none" /\ alt = "zip" -> Content("branded", i)
              [] raised # "none" /\ alt = "docx" -> NoContent
              [] OTHER -> @,
        ![Name(o.base, o.tag \o "_alt", "docx")] =
            IF raised # "none" /\ alt = "docx" THEN Content("branded", i) ELSE @]

\* the files beside output path o that the archive step of the call makes:
\* <base>.zip, <base>_alt.zip and <base>_alt.docx, <base> being o without
\* its extension
ZipOf(o) == Name(o.base, o.tag, "zip")

AltZipOf(o) == Name(o.base, o.tag \o "_alt", "zip")

AltDocxOf(o) == Name(o.base, o.tag \o "_alt", "docx")

\* input_path of the call of apply_branding_to_docx can be read: the uploaded
\* .docx is in the upload directory, the converted copy of a .pdf is in the
\* output directory
InputPresent ==
    IF upload_dir[jidx].ext = "docx"
    THEN jidx \in uploaded
    ELSE output_dir[JobConvertedName(upload_dir[jidx])] # NoContent

\* the files of the listing the loop has not come to
Remaining == {i \in listed : i > jidx}

\* what the task leaves alone while it works on a file
requestVars == <<downloads, dpc, entries>>

uploadVars == <<upload_dir, uploaded>>

loopVars == <<jidx, visited, exc, listed>>

\* a statement processing_jobs[job_id][...] = ... of the task: the write, or
\* the KeyError that takes the task to its outer except branch
\*   write    the entry after the write
\*   next     where the task goes on after the write
EntryWrite(write, next) ==
    IF Tracked
    THEN /\ processing_jobs' = write
         /\ jpc' = next
         /\ UNCHANGED exc
    ELSE /\ jpc' = "except"
         /\ exc' = "KeyError"
         /\ UNCHANGED processing_jobs

\* the same statement inside the outer except branch, where nothing catches
\* the KeyError
HandlerWrite(write, next) ==
    IF Tracked
    THEN /\ processing_jobs' = write
         /\ jpc' = next
    ELSE /\ jpc' = "crashed"
         /\ UNCHANGED processing_jobs

\* the except branch inside the loop: logger.error, and what the handler does
\* with the loop and the entry
LogFileError ==
    LET handled == FileErrorHandler(IF Tracked THEN processing_jobs.status
                                                ELSE "None")
    IN  /\ error_log' = Append(error_log, jidx)
        /\ processing_jobs' =
              IF Tracked
              THEN [processing_jobs EXCEPT !.status = handled.status]
              ELSE processing_jobs
        /\ jpc' = handled.next

\* the task starts: the status of the job becomes "processing"
JobStart ==
    /\ jpc = "queued"
    /\ EntryWrite([processing_jobs EXCEPT !.status = "processing"], "listing")
    /\ processed_files' = <<>>
    /\ UNCHANGED <<output_dir, dirs, jidx, visited, listed, error_log>>
    /\ UNCHANGED <<uploadVars, requestVars>>
    /\ UNCHANGED <<engineVars, poolVars, batchVars, callVars>>

\* os.listdir(upload_dir): the files that are in the directory now; when it
\* raises (the directory is not there) the task goes to its outer except
\* branch
ListUploadDir ==
    /\ jpc = "listing"
    /\ \E raised \in BOOLEAN :
          IF raised \/ ~dirs.upload
          THEN /\ jpc' = "except"
               /\ exc' = "listdir"
               /\ UNCHANGED listed
          ELSE /\ jpc' = "loop"
               /\ listed' = uploaded
               /\ UNCHANGED exc
    /\ UNCHANGED <<processing_jobs, output_dir, dirs, processed_files, jidx, visited,
                   error_log>>
    /\ UNCHANGED <<uploadVars, requestVars>>
    /\ UNCHANGED <<engineVars, poolVars, batchVars, callVars>>

\* the loop head: the next file name of the listing and the branch on its
\* extension
JobNextFile ==
    /\ jpc = "loop"
    /\ Remaining # {}
    /\ LET next == CHOOSE i \in Remaining : \A j \in Remaining : i <= j
       IN  /\ jidx' = next
           /\ visited' = [visited EXCEPT ![next] = @ + 1]
           /\ jpc' = IF upload_dir[next].ext = "docx" THEN "compose" ELSE "convert"
    /\ UNCHANGED <<processing_jobs, output_dir, dirs, processed_files, error_log, exc,
                   listed>>
    /\ UNCHANGED <<uploadVars, requestVars>>
    /\ UNCHANGED <<engineVars, poolVars, batchVars, callVars>>

\* convert_pdf_to_docx, Converter(pdf_path): the uploaded .pdf is opened; on
\* any exception the function returns False and the loop body does nothing
\* more for the file
JobConvertPdf ==
    /\ jpc = "convert"
    /\ jpc' = IF upload_dir[jidx].kind = "unconvertible" \/ jidx \notin uploaded
              THEN "loop" ELSE "convert_write"
    /\ UNCHANGED <<processing_jobs, output_dir, dirs, processed_files, error_log>>
    /\ UNCHANGED <<loopVars, uploadVars, requestVars>>
    /\ UNCHANGED <<engineVars, poolVars, batchVars, callVars>>

\* cv.convert(docx_path): the converted copy is written into the output
\* directory; without the directory the write raises and the function
\* returns False
JobConvertWrite ==
    /\ jpc = "convert_write"
    /\ IF dirs.output
       THEN /\ output_dir' = [output_dir EXCEPT
                                 ![JobConvertedName(upload_dir[jidx])] =
                                     Content("converted", jidx)]
            /\ jpc' = "convert_load"
       ELSE /\ jpc' = "loop"
            /\ UNCHANGED output_dir
    /\ UNCHANGED <<processing_jobs, dirs, processed_files, error_log>>
    /\ UNCHANGED <<loopVars, uploadVars, requestVars>>
    /\ UNCHANGED <<engineVars, poolVars, batchVars, callVars>>

\* Document(docx_path) of the inner try: the converted copy is loaded; when
\* that raises a warning is printed and the function returns True
JobConvertLoad ==
    /\ jpc = "convert_load"
    /\ jpc' = IF output_dir[JobConvertedName(upload_dir[jidx])] # NoContent
                 /\ upload_dir[jidx].kind = "ok"
              THEN "convert_save" ELSE "compose"
    /\ UNCHANGED <<processing_jobs, output_dir, dirs, processed_files, error_log>>
    /\ UNCHANGED <<loopVars, uploadVars, requestVars>>
    /\ UNCHANGED <<engineVars, poolVars, batchVars, callVars>>

\* doc.save(docx_path) of the inner try: the converted copy is written
\* again; when that raises a warning is printed and the function returns True
JobConvertSave ==
    /\ jpc = "convert_save"
    /\ output_dir' = IF dirs.output
                     THEN [output_dir EXCEPT
                              ![JobConvertedName(upload_dir[jidx])] =
                                  Content("converted", jidx)]
                     ELSE output_dir
    /\ jpc' = "compose"
    /\ UNCHANGED <<processing_jobs, dirs, processed_files, error_log>>
    /\ UNCHANGED <<loopVars, uploadVars, requestVars>>
    /\ UNCHANGED <<engineVars, poolVars, batchVars, callVars>>

\* apply_branding_to_docx on the file or on its converted copy: the template
\* and the input are extracted and merged in a temporary directory; an input
\* that is no zip or is not there makes the call raise, and the except branch
\* of the loop body logs the error
JobExtractInput ==
    /\ jpc = "compose"
    /\ IF InputPresent /\ upload_dir[jidx].kind = "ok"
       THEN /\ jpc' = "archive"
            /\ UNCHANGED <<processing_jobs, error_log>>
       ELSE LogFileError
    /\ UNCHANGED <<output_dir, dirs, processed_files>>
    /\ UNCHANGED <<loopVars, uploadVars, requestVars>>
    /\ UNCHANGED <<engineVars, poolVars, batchVars, callVars>>

\* shutil.make_archive: the directory of the archive is made when it is not
\* there and <base>.zip is written; when it raises the except branch of the
\* archive step is taken
JobMakeArchive ==
    /\ jpc = "archive"
    /\ \E raised \in BOOLEAN :
          IF raised
          THEN /\ jpc' = "alt_zip"
               /\ UNCHANGED <<output_dir, dirs>>
          ELSE /\ dirs' = [dirs EXCEPT !.output = TRUE]
               /\ output_dir' = [output_dir EXCEPT
                                    ![ZipOf(JobOutputName(upload_dir[jidx]))] =
                                        Content("branded", jidx)]
               /\ jpc' = "zip_exists"
    /\ UNCHANGED <<processing_jobs, processed_files, error_log>>
    /\ UNCHANGED <<loopVars, uploadVars, requestVars>>
    /\ UNCHANGED <<engineVars, poolVars, batchVars, callVars>>

\* if os.path.exists(zip_path): without the zip the call returns
JobZipExists ==
    /\ jpc = "zip_exists"
    /\ jpc' = IF output_dir[ZipOf(JobOutputName(upload_dir[jidx]))] # NoContent
              THEN "makedirs" ELSE "called"
    /\ UNCHANGED <<processing_jobs, output_dir, dirs, processed_files, error_log>>
    /\ UNCHANGED <<loopVars, uploadVars, requestVars>>
    /\ UNCHANGED <<engineVars, poolVars, batchVars, callVars>>

\* os.makedirs(os.path.dirname(output_path), exist_ok=True)
JobMakeOutputDir ==
    /\ jpc = "makedirs"
    /\ dirs' = [dirs EXCEPT !.output = TRUE]
    /\ jpc' = "output_exists"
    /\ UNCHANGED <<processing_jobs, output_dir, processed_files, error_log>>
    /\ UNCHANGED <<loopVars, uploadVars, requestVars>>
    /\ UNCHANGED <<engineVars, poolVars, batchVars, callVars>>

\* if os.path.exists(output_path)
JobOutputExists ==
    /\ jpc = "output_exists"
    /\ jpc' = IF output_dir[JobOutputName(upload_dir[jidx])] # NoContent
              THEN "remove" ELSE "rename"
    /\ UNCHANGED <<processing_jobs, output_dir, dirs, processed_files, error_log>>
    /\ UNCHANGED <<loopVars, uploadVars, requestVars>>
    /\ UNCHANGED <<engineVars, poolVars, batchVars, callVars>>

\* os.remove(output_path); it raises when the file is there no more
JobRemoveOutput ==
    /\ jpc = "remove"
    /\ \E raised \in BOOLEAN :
          IF ~raised /\ output_dir[JobOutputName(upload_dir[jidx])] # NoContent
          THEN /\ output_dir' = [output_dir EXCEPT
                                    ![JobOutputName(upload_dir[jidx])] = NoContent]
               /\ jpc' = "rename"
          ELSE /\ jpc' = "alt_zip"
               /\ UNCHANGED output_dir
    /\ UNCHANGED <<processing_jobs, dirs, processed_files, error_log>>
    /\ UNCHANGED <<loopVars, uploadVars, requestVars>>
    /\ UNCHANGED <<engineVars, poolVars, batchVars, callVars>>

\* os.rename(zip_path, output_path); it raises when the zip is there no more
JobRenameZip ==
    /\ jpc = "rename"
    /\ \E raised \in BOOLEAN :
          LET o == JobOutputName(upload_dir[jidx])
          IN  IF ~raised /\ output_dir[ZipOf(o)] # NoContent
              THEN /\ output_dir' = [output_dir EXCEPT ![o] = output_dir[ZipOf(o)],
                                                       ![ZipOf(o)] = NoContent]
                   /\ jpc' = "called"
              ELSE /\ jpc' = "alt_zip"
                   /\ UNCHANGED output_dir
    /\ UNCHANGED <<processing_jobs, dirs, processed_files, error_log>>
    /\ UNCHANGED <<loopVars, uploadVars, requestVars>>
    /\ UNCHANGED <<engineVars, poolVars, batchVars, callVars>>

\* the except branch of the archive step: <base>_alt.zip is written with
\* ZipFile; when that raises the error is printed and the call returns
JobAltZip ==
    /\ jpc = "alt_zip"
    /\ \E raised \in BOOLEAN :
          IF ~raised /\ dirs.output
          THEN /\ output_dir' = [output_dir EXCEPT
                                    ![AltZipOf(JobOutputName(upload_dir[jidx]))] =
                                        Content("branded", jidx)]
               /\ jpc' = "alt_exists"
          ELSE /\ jpc' = "called"
               /\ UNCHANGED output_dir
    /\ UNCHANGED <<processing_jobs, dirs, processed_files, error_log>>
    /\ UNCHANGED <<loopVars, uploadVars, requestVars>>
    /\ UNCHANGED <<engineVars, poolVars, batchVars, callVars>>

\* if os.path.exists(alt_zip_path)
JobAltZipExists ==
    /\ jpc = "alt_exists"
    /\ jpc' = IF output_dir[AltZipOf(JobOutputName(upload_dir[jidx]))] # NoContent
              THEN "alt_rename" ELSE "called"
    /\ UNCHANGED <<processing_jobs, output_dir, dirs, processed_files, error_log>>
    /\ UNCHANGED <<loopVars, uploadVars, requestVars>>
    /\ UNCHANGED <<engineVars, poolVars, batchVars, callVars>>

\* os.rename(alt_zip_path, alt_output_path); when it raises the error is
\* printed; the call returns
JobAltRename ==
    /\ jpc = "alt_rename"
    /\ \E raised \in BOOLEAN :
          LET o == JobOutputName(upload_dir[jidx])
          IN  output_dir' =
                 IF ~raised /\ output_dir[AltZipOf(o)] # NoContent
                 THEN [output_dir EXCEPT ![AltDocxOf(o)] = output_dir[AltZipOf(o)],
                                         ![AltZipOf(o)] = NoContent]
                 ELSE output_dir
    /\ jpc' = "called"
    /\ UNCHANGED <<processing_jobs, dirs, processed_files, error_log>>
    /\ UNCHANGED <<loopVars, uploadVars, requestVars>>
    /\ UNCHANGED <<engineVars, poolVars, batchVars, callVars>>

\* the call has returned: the output of a .docx is appended to
\* processed_files; for a .pdf, if os.path.exists(temp_docx_path), and the
\* append when the converted copy is not there
JobCalled ==
    /\ jpc = "called"
    /\ IF upload_dir[jidx].ext = "pdf"
          /\ output_dir[JobConvertedName(upload_dir[jidx])] # NoContent
       THEN /\ jpc' = "clean"
            /\ UNCHANGED processed_files
       ELSE /\ processed_files' =
                  Append(processed_files, JobOutputName(upload_dir[jidx]))
            /\ jpc' = "loop"
    /\ UNCHANGED <<processing_jobs, output_dir, dirs, error_log>>
    /\ UNCHANGED <<loopVars, uploadVars, requestVars>>
    /\ UNCHANGED <<engineVars, poolVars, batchVars, callVars>>

\* os.remove(temp_docx_path), then the append to processed_files; when the
\* removal raises the except branch of the loop body logs the error
JobRemoveConverted ==
    /\ jpc = "clean"
    /\ \E raised \in BOOLEAN :
          IF ~raised /\ output_dir[JobConvertedName(upload_dir[jidx])] # NoContent
          THEN /\ output_dir' = [output_dir EXCEPT
                                    ![JobConvertedName(upload_dir[jidx])] = NoContent]
               /\ processed_files' =
                     Append(processed_files, JobOutputName(upload_dir[jidx]))
               /\ jpc' = "loop"
               /\ UNCHANGED <<processing_jobs, error_log>>
          ELSE /\ LogFileError
               /\ UNCHANGED <<output_dir, processed_files>>
    /\ UNCHANGED dirs
    /\ UNCHANGED <<loopVars, uploadVars, requestVars>>
    /\ UNCHANGED <<engineVars, poolVars, batchVars, callVars>>

\* the listing is exhausted: the job is marked completed
JobCompleted ==
    /\ jpc = "loop"
    /\ Remaining = {}
    /\ EntryWrite([processing_jobs EXCEPT !.status = "completed"], "store_files")
    /\ UNCHANGED <<output_dir, dirs, processed_files, jidx, visited, listed, error_log>>
    /\ UNCHANGED <<uploadVars, requestVars>>
    /\ UNCHANGED <<engineVars, poolVars, batchVars, callVars>>

\* processing_jobs[job_id]["processed_files"] = processed_files
JobStoreProcessed ==
    /\ jpc = "store_files"
    /\ EntryWrite([processing_jobs EXCEPT !.processed_files = processed_files],
                  "store_time")
    /\ UNCHANGED <<output_dir, dirs, processed_files, jidx, visited, listed, error_log>>
    /\ UNCHANGED <<uploadVars, requestVars>>
    /\ UNCHANGED <<engineVars, poolVars, batchVars, callVars>>

\* processing_jobs[job_id]["completed_at"] = time.time()
JobStoreCompletedAt ==
    /\ jpc = "store_time"
    /\ EntryWrite([processing_jobs EXCEPT !.completed_at = "time"], "returned")
    /\ UNCHANGED <<output_dir, dirs, processed_files, jidx, visited, listed, error_log>>
    /\ UNCHANGED <<uploadVars, requestVars>>
    /\ UNCHANGED <<engineVars, poolVars, batchVars, callVars>>

\* the outer except branch: the job is marked failed
JobFailed ==
    /\ jpc = "except"
    /\ HandlerWrite([processing_jobs EXCEPT !.status = "failed"], "store_error")
    /\ UNCHANGED <<output_dir, dirs, processed_files, error_log>>
    /\ UNCHANGED <<loopVars, uploadVars, requestVars>>
    /\ UNCHANGED <<engineVars, poolVars, batchVars, callVars>>

\* processing_jobs[job_id]["error"] = str(e)
JobStoreError ==
    /\ jpc = "store_error"
    /\ HandlerWrite([processing_jobs EXCEPT !.error = exc], "returned")
    /\ UNCHANGED <<output_dir, dirs, processed_files, error_log>>
    /\ UNCHANGED <<loopVars, uploadVars, requestVars>>
    /\ UNCHANGED <<engineVars, poolVars, batchVars, callVars>>

\* upload_files has made the two directories of the job, saved the uploads
\* and made the entry of the job
JobInit ==
    /\ EngineIdle
    /\ BatchIdle
    /\ CallIdle
    /\ PoolIdle
    /\ \E l \in JobListings :
          /\ upload_dir = l
          /\ uploaded = DOMAIN l
          /\ visited = [i \in 1..Len(l) |-> 0]
    /\ dirs = [upload |-> TRUE, output |-> TRUE]
    /\ processing_jobs = QueuedJob
    /\ output_dir = [n \in JobNames |-> NoContent]
    /\ processed_files = <<>>
    /\ jidx = 0
    /\ jpc = "queued"
    /\ listed = {}
    /\ error_log = <<>>
    /\ exc = "None"
    /\ downloads = {}
    /\ dpc = "idle"
    /\ entries = {}

JobNext ==
    \/ JobStart
    \/ ListUploadDir
    \/ JobNextFile
    \/ JobConvertPdf
    \/ JobConvertWrite
    \/ JobConvertLoad
    \/ JobConvertSave
    \/ JobExtractInput
    \/ JobMakeArchive
    \/ JobZipExists
    \/ JobMakeOutputDir
    \/ JobOutputExists
    \/ JobRemoveOutput
    \/ JobRenameZip
    \/ JobAltZip
    \/ JobAltZipExists
    \/ JobAltRename
    \/ JobCalled
    \/ JobRemoveConverted
    \/ JobCompleted
    \/ JobStoreProcessed
    \/ JobStoreCompletedAt
    \/ JobFailed
    \/ JobStoreError

JobSpec == JobInit /\ [][JobNext]_vars

(***************************************************************************)
(* The requests of app.py that meet the background task: delete_job and     *)
(* download_all. The task runs in a worker thread, so the system calls of a  *)
(* request handler and the steps of the task interleave; the handlers        *)
(* themselves run one after the other on the event loop                      *)

\* what a step of delete_job leaves alone
taskVars == <<processed_files, jidx, jpc, visited, listed, error_log, exc>>

\* the files that are in the output directory
OutputFiles == {n \in JobNames : output_dir[n] # NoContent}

\* delete_job: the job is tracked; if os.path.exists(job_upload_dir),
\* shutil.rmtree lists the directory with os.scandir
ScanUploads ==
    /\ dpc \in {"idle", "raised"}
    /\ Tracked
    /\ IF dirs.upload
       THEN /\ dpc' = "uploads"
            /\ entries' = uploaded
       ELSE /\ dpc' = "uploads_removed"
            /\ entries' = {}
    /\ UNCHANGED <<processing_jobs, output_dir, dirs, downloads>>
    /\ UNCHANGED <<taskVars, uploadVars>>
    /\ UNCHANGED <<engineVars, poolVars, batchVars, callVars>>

\* shutil.rmtree(job_upload_dir): os.unlink of one listed file
UnlinkUpload ==
    /\ dpc = "uploads"
    /\ \E i \in entries :
          /\ uploaded' = uploaded \ {i}
          /\ entries' = entries \ {i}
    /\ UNCHANGED <<processing_jobs, upload_dir, output_dir, dirs, downloads, dpc>>
    /\ UNCHANGED taskVars
    /\ UNCHANGED <<engineVars, poolVars, batchVars, callVars>>

\* shutil.rmtree(job_upload_dir): os.rmdir of the directory
RmdirUploads ==
    /\ dpc = "uploads"
    /\ entries = {}
    /\ dirs' = [dirs EXCEPT !.upload = FALSE]
    /\ dpc' = "uploads_removed"
    /\ UNCHANGED <<processing_jobs, output_dir, downloads, entries>>
    /\ UNCHANGED <<taskVars, uploadVars>>
    /\ UNCHANGED <<engineVars, poolVars, batchVars, callVars>>

\* if os.path.exists(job_output_dir), shutil.rmtree lists the directory with
\* os.scandir
ScanOutputs ==
    /\ dpc = "uploads_removed"
    /\ IF dirs.output
       THEN /\ dpc' = "outputs"
            /\ entries' = OutputFiles
       ELSE /\ dpc' = "outputs_removed"
            /\ entries' = {}
    /\ UNCHANGED <<processing_jobs, output_dir, dirs, downloads>>
    /\ UNCHANGED <<taskVars, uploadVars>>
    /\ UNCHANGED <<engineVars, poolVars, batchVars, callVars>>

\* shutil.rmtree(job_output_dir): os.unlink of one listed file; it raises
\* when the task has removed or renamed the file since, and delete_job ends
\* there with the entry in place
UnlinkOutput ==
    /\ dpc = "outputs"
    /\ \E n \in entries :
          IF output_dir[n] # NoContent
          THEN /\ output_dir' = [output_dir EXCEPT ![n] = NoContent]
               /\ entries' = entries \ {n}
               /\ UNCHANGED dpc
          ELSE /\ dpc' = "raised"
               /\ entries' = {}
               /\ UNCHANGED output_dir
    /\ UNCHANGED <<processing_jobs, dirs, downloads>>
    /\ UNCHANGED <<taskVars, uploadVars>>
    /\ UNCHANGED <<engineVars, poolVars, batchVars, callVars>>

\* shutil.rmtree(job_output_dir): os.rmdir of the directory; it raises when
\* the task has written a file into it since the listing, and delete_job ends
\* there with the entry in place
RmdirOutputs ==
    /\ dpc = "outputs"
    /\ entries = {}
    /\ IF OutputFiles = {}
       THEN /\ dirs' = [dirs EXCEPT !.output = FALSE]
            /\ dpc' = "outputs_removed"
       ELSE /\ dpc' = "raised"
            /\ UNCHANGED dirs
    /\ UNCHANGED <<processing_jobs, output_dir, downloads, entries>>
    /\ UNCHANGED <<taskVars, uploadVars>>
    /\ UNCHANGED <<engineVars, poolVars, batchVars, callVars>>

\* del processing_jobs[job_id]
DeleteEntry ==
    /\ dpc = "outputs_removed"
    /\ processing_jobs' = <<>>
    /\ dpc' = "deleted"
    /\ UNCHANGED <<output_dir, dirs, downloads, entries>>
    /\ UNCHANGED <<taskVars, uploadVars>>
    /\ UNCHANGED <<engineVars, poolVars, batchVars, callVars>>

\* download_all answers with the archive of the output directory: the job is
\* tracked, its status is "completed" and the directory is there for
\* shutil.make_archive; no call of delete_job is under way
DownloadAll ==
    /\ dpc \in {"idle", "raised"}
    /\ Tracked
    /\ processing_jobs.status = "completed"
    /\ dirs.output
    /\ downloads' = downloads \cup {processing_jobs}
    /\ UNCHANGED <<processing_jobs, output_dir, dirs, dpc, entries>>
    /\ UNCHANGED <<taskVars, uploadVars>>
    /\ UNCHANGED <<engineVars, poolVars, batchVars, callVars>>

\* the uploads of the jobs that meet requests: files under names of their own
ServiceInit ==
    /\ JobInit
    /\ \A i \in DOMAIN upload_dir : upload_dir[i].tag = ""

ServiceNext ==
    \/ JobNext
    \/ ScanUploads
    \/ UnlinkUpload
    \/ RmdirUploads
    \/ ScanOutputs
    \/ UnlinkOutput
    \/ RmdirOutputs
    \/ DeleteEntry
    \/ DownloadAll

ServiceSpec == ServiceInit /\ [][ServiceNext]_vars

(***************************************************************************)
(* Claims about the job                                                     *)

\* the call of apply_branding_to_docx for uploaded file i returns
Composable(i) == upload_dir[i].kind = "ok"

\* the loop body of uploaded file i raised and its except branch logged it
FileFailed(i) == \E p \in DOMAIN error_log : error_log[p] = i

InSeq(s, e) == \E p \in DOMAIN s : s[p] = e

\* C20: a document whose processing fails does not end the loop and does
\* not mark the job failed: every file of the listing is passed over
\* exactly once, and every file whose composition returns and whose loop
\* body raises nothing is in processed_files of the completed job
C20_FailureDoesNotStopTheJob ==
    /\ \A i \in DOMAIN upload_dir : visited[i] <= 1
    /\ error_log # <<>> => processing_jobs.status \in {"processing", "completed"}
    /\ (jpc = "returned" /\ processing_jobs.error = "None") =>
          /\ processing_jobs.status = "completed"
          /\ \A i \in DOMAIN upload_dir :
                /\ visited[i] = 1
                /\ (Composable(i) /\ ~FileFailed(i)) =>
                      InSeq(processing_jobs.processed_files, JobOutputName(upload_dir[i]))

\* a completed job in which a file failed and a later file was processed
C20_LaterFileProcessedAfterFailure ==
    /\ jpc = "returned"
    /\ processing_jobs.status = "completed"
    /\ \E i, j \in DOMAIN upload_dir :
          /\ i < j
          /\ InSeq(error_log, i)
          /\ Composable(j)
          /\ upload_dir[j].base # upload_dir[i].base
          /\ InSeq(processing_jobs.processed_files, JobOutputName(upload_dir[j]))

(***************************************************************************)
(* batch_process of main.py and of main_backup.py: one merge, the zip-level *)
(* merge of that file's apply_branding_to_docx, and the fallback copy       *)

\* the file names of OUTPUT_DIR these two functions can write
BatchNames ==
    [base : Bases,
     tag : {"", "_alt", "_fallback", "_converted", "_temp", "_temp_alt",
            "_temp_fallback", "_converted_only"},
     ext : {"docx", "pdf", "zip"}]

\* os.listdir(INPUT_DIR): the merge reads a .docx as a zip, so a .docx is
\* "ok" or "corrupt" for it
MergeListings == {l \in Listings : \A i \in DOMAIN l : l[i].kind # "unauthorable"}

\* the files OUTPUT_DIR may hold before the batch: none, or a file under the
\* name of every possible input and output (<base>.docx, <base>.pdf)
EarlierOutputs == {{}, [base : Bases, tag : {""}, ext : {"docx", "pdf"}]}

\* output_path of batch_process in main.py: OUTPUT_DIR/<filename>
main_output_path == Name(filename.base, "", filename.ext)

\* <base>_temp<ext> when a file is at output_path, else output_path; nothing
\* writes output_path between the loop head and the steps that use the name
temp_output_path ==
    IF OUTPUT_DIR[main_output_path] # NoContent
    THEN Name(filename.base, "_temp", filename.ext)
    ELSE main_output_path

\* temp_fallback of main.py: temp_output_path with _fallback before the
\* extension
main_temp_fallback ==
    Name(filename.base, temp_output_path.tag \o "_fallback", filename.ext)

\* output_docx of a .pdf file
output_docx == Name(filename.base, "", "docx")

\* fallback of main_backup.py
fallback == Name(filename.base, "_fallback", filename.ext)

\* shutil.copy2(input_path, name) in a handler: the copy, or nothing when the
\* copy raises
FallbackCopy(dir, name, copied) ==
    IF copied THEN [dir EXCEPT ![name] = Content("original", idx)] ELSE dir

\* what the handler that made or missed the copy has printed
CopyLogged(copied) == IF copied THEN <<"PassThrough">> ELSE <<"PassThrough", "FailureReported">>

\* the merge has returned with this archive outcome
MergeLogged(raised) == <<"Merge", IF raised = "none" THEN "Success" ELSE "ArchiveFailed">>

\* the rename of batch_process in main.py, when temp_output_path is not
\* output_path: os.remove(output_path), os.rename(temp_output_path,
\* output_path); an OSError of either is printed and the loop goes on.
\* os.rename raises when the merge left no file at temp_output_path
Renamed(dir, from, to, raised) ==
    IF from = to
    THEN dir
    ELSE CASE raised = "remove" -> dir
           [] raised = "rename" \/ dir[from] = NoContent -> [dir EXCEPT ![to] = NoContent]
           [] OTHER -> [dir EXCEPT ![to] = dir[from], ![from] = NoContent]

\* the loop head of main.py
MainNextFile ==
    /\ bpc = "main_loop"
    /\ idx < Len(INPUT_DIR)
    /\ idx' = idx + 1
    /\ bpc' = CASE INPUT_DIR[idx + 1].ext = "docx" -> "main_docx"
                [] INPUT_DIR[idx + 1].ext = "pdf" -> "main_convert"
                [] OTHER -> "main_loop"
    /\ UNCHANGED <<INPUT_DIR, OUTPUT_DIR, existing, input_kind, trace>>
    /\ UNCHANGED <<engineVars, poolVars, jobVars, callVars, TEMPLATE_DOCX>>

\* the .docx branch of main.py: apply_branding_to_docx to temp_output_path
\* and the rename to output_path; when the call raises (the input is no zip)
\* the input is copied to temp_fallback
MainDocx ==
    /\ bpc = "main_docx"
    /\ IF filename.kind = "corrupt"
       THEN \E copied \in BOOLEAN :
               /\ OUTPUT_DIR' = FallbackCopy(OUTPUT_DIR, main_temp_fallback, copied)
               /\ trace' = Logged(<<"Merge", "MergeFailed">> \o CopyLogged(copied))
       ELSE \E raised \in {"none", "make_archive", "remove", "rename"},
               alt \in {"none", "zip", "docx"}, moved \in {"none", "remove", "rename"} :
               /\ CanRaise(raised, OUTPUT_DIR, temp_output_path)
               /\ OUTPUT_DIR' =
                     Renamed(Composition(OUTPUT_DIR, temp_output_path, idx, raised, alt),
                             temp_output_path, main_output_path, moved)
               /\ trace' = Logged(MergeLogged(raised))
    /\ bpc' = "main_loop"
    /\ UNCHANGED <<INPUT_DIR, existing, idx, input_kind>>
    /\ UNCHANGED <<engineVars, poolVars, jobVars, callVars, TEMPLATE_DOCX>>

\* convert_pdf_to_docx of main.py to <base>_converted.docx; when it returns
\* False the input is copied to temp_fallback
MainConvertPdf ==
    /\ bpc = "main_convert"
    /\ IF filename.kind = "unconvertible"
       THEN /\ \E copied \in BOOLEAN :
                  /\ OUTPUT_DIR' = FallbackCopy(OUTPUT_DIR, main_temp_fallback, copied)
                  /\ trace' = Logged(CopyLogged(copied))
            /\ bpc' = "main_loop"
       ELSE /\ OUTPUT_DIR' = [OUTPUT_DIR EXCEPT ![temp_docx] = Content("converted", idx)]
            /\ bpc' = "main_pdf"
            /\ UNCHANGED trace
    /\ UNCHANGED <<INPUT_DIR, existing, idx, input_kind>>
    /\ UNCHANGED <<engineVars, poolVars, jobVars, callVars, TEMPLATE_DOCX>>

\* apply_branding_to_docx(temp_docx, output_docx) and os.remove(temp_docx);
\* when either raises the input is copied to temp_fallback
MainPdf ==
    /\ bpc = "main_pdf"
    /\ IF filename.kind = "corrupt"
       THEN \E copied \in BOOLEAN :
               /\ OUTPUT_DIR' = FallbackCopy(OUTPUT_DIR, main_temp_fallback, copied)
               /\ trace' = Logged(<<"Merge", "MergeFailed">> \o CopyLogged(copied))
       ELSE \E raised \in {"none", "make_archive", "remove", "rename"},
               alt \in {"none", "zip", "docx"}, cleaned, copied \in BOOLEAN :
               /\ CanRaise(raised, OUTPUT_DIR, output_docx)
               /\ LET merged == Composition(OUTPUT_DIR, output_docx, idx, raised, alt)
                  IN  IF cleaned
                      THEN /\ OUTPUT_DIR' = [merged EXCEPT ![temp_docx] = NoContent]
                           /\ trace' = Logged(MergeLogged(raised))
                      ELSE /\ OUTPUT_DIR' = FallbackCopy(merged, main_temp_fallback, copied)
                           /\ trace' = Logged(MergeLogged(raised) \o CopyLogged(copied))
    /\ bpc' = "main_loop"
    /\ UNCHANGED <<INPUT_DIR, existing, idx, input_kind>>
    /\ UNCHANGED <<engineVars, poolVars, jobVars, callVars, TEMPLATE_DOCX>>

\* the listing is exhausted
MainFinished ==
    /\ bpc = "main_loop"
    /\ idx = Len(INPUT_DIR)
    /\ bpc' = "finished"
    /\ UNCHANGED <<INPUT_DIR, OUTPUT_DIR, existing, idx, input_kind, trace>>
    /\ UNCHANGED <<engineVars, poolVars, jobVars, callVars, TEMPLATE_DOCX>>

\* the state before a batch of main.py or main_backup.py
MergeBatchInit(start) ==
    /\ EngineIdle
    /\ JobIdle
    /\ CallIdle
    /\ PoolIdle
    /\ TEMPLATE_DOCX = TemplateFile
    /\ \E l \in MergeListings, prev \in EarlierOutputs :
          /\ INPUT_DIR = l
          /\ existing = [n \in BatchNames |-> IF n \in prev THEN Previous ELSE NoContent]
          /\ OUTPUT_DIR = existing
          /\ trace = [i \in 1..Len(l) |-> <<>>]
    /\ idx = 0
    /\ bpc = start
    /\ input_kind = "none"

MainBatchInit == MergeBatchInit("main_loop")

MainBatchNext ==
    \/ MainNextFile
    \/ MainDocx
    \/ MainConvertPdf
    \/ MainPdf
    \/ MainFinished

MainBatchSpec == MainBatchInit /\ [][MainBatchNext]_vars

\* apply_branding_to_docx of main_backup.py: True with the package at
\* output_path, False when anything raised; a failed archive step leaves the
\* zip and no other file
BackupMerge(dir, o, kind, raised) ==
    IF kind = "corrupt" THEN dir ELSE Composition(dir, o, idx, raised, "none")

BackupMergeFailed(kind, raised) == kind = "corrupt" \/ raised # "none"

\* the loop head of main_backup.py
BackupNextFile ==
    /\ bpc = "backup_loop"
    /\ idx < Len(INPUT_DIR)
    /\ idx' = idx + 1
    /\ bpc' = CASE INPUT_DIR[idx + 1].ext = "docx" -> "backup_docx"
                [] INPUT_DIR[idx + 1].ext = "pdf" -> "backup_convert"
                [] OTHER -> "backup_loop"
    /\ UNCHANGED <<INPUT_DIR, OUTPUT_DIR, existing, input_kind, trace>>
    /\ UNCHANGED <<engineVars, poolVars, jobVars, callVars, TEMPLATE_DOCX>>

\* the .docx branch of main_backup.py: on False the input is copied to
\* <base>_fallback.docx; when the copy raises the outer handler makes the
\* same copy again, and passes when that raises too
BackupDocx ==
    /\ bpc = "backup_docx"
    /\ \E raised \in {"none", "make_archive", "remove", "rename"}, copied \in BOOLEAN :
          /\ CanRaise(raised, OUTPUT_DIR, output_path)
          /\ LET merged == BackupMerge(OUTPUT_DIR, output_path, filename.kind, raised)
             IN  IF BackupMergeFailed(filename.kind, raised)
                 THEN /\ OUTPUT_DIR' = FallbackCopy(merged, fallback, copied)
                      /\ trace' = Logged(<<"Merge", "MergeFailed">> \o CopyLogged(copied))
                 ELSE /\ OUTPUT_DIR' = merged
                      /\ trace' = Logged(<<"Merge", "Success">>)
    /\ bpc' = "backup_loop"
    /\ UNCHANGED <<INPUT_DIR, existing, idx, input_kind>>
    /\ UNCHANGED <<engineVars, poolVars, jobVars, callVars, TEMPLATE_DOCX>>

\* convert_pdf_to_docx of main_backup.py to a temporary file outside
\* OUTPUT_DIR; on False the input is copied to <base>_fallback.pdf
BackupConvertPdf ==
    /\ bpc = "backup_convert"
    /\ IF filename.kind = "unconvertible"
       THEN /\ \E copied \in BOOLEAN :
                  /\ OUTPUT_DIR' = FallbackCopy(OUTPUT_DIR, fallback, copied)
                  /\ trace' = Logged(CopyLogged(copied))
            /\ bpc' = "backup_loop"
       ELSE /\ bpc' = "backup_pdf"
            /\ UNCHANGED <<OUTPUT_DIR, trace>>
    /\ UNCHANGED <<INPUT_DIR, existing, idx, input_kind>>
    /\ UNCHANGED <<engineVars, poolVars, jobVars, callVars, TEMPLATE_DOCX>>

\* apply_branding_to_docx(temp_docx, output_docx) of main_backup.py: on False
\* the converted file is copied to <base>_converted_only.docx; when that
\* copy raises the outer handler copies the input to <base>_fallback.pdf
BackupPdf ==
    /\ bpc = "backup_pdf"
    /\ \E raised \in {"none", "make_archive", "remove", "rename"},
          kept \in {"converted", "original", "none"} :
          /\ CanRaise(raised, OUTPUT_DIR, output_docx)
          /\ LET merged == BackupMerge(OUTPUT_DIR, output_docx, filename.kind, raised)
             IN  IF BackupMergeFailed(filename.kind, raised)
                 THEN /\ OUTPUT_DIR' =
                            IF kept = "converted"
                            THEN [merged EXCEPT
                                     ![Name(filename.base, "_converted_only", "docx")] =
                                         Content("converted", idx)]
                            ELSE FallbackCopy(merged, fallback, kept = "original")
                      /\ trace' = Logged(<<"Merge", "MergeFailed">> \o
                                         CopyLogged(kept # "none"))
                 ELSE /\ OUTPUT_DIR' = merged
                      /\ trace' = Logged(<<"Merge", "Success">>)
    /\ bpc' = "backup_loop"
    /\ UNCHANGED <<INPUT_DIR, existing, idx, input_kind>>
    /\ UNCHANGED <<engineVars, poolVars, jobVars, callVars, TEMPLATE_DOCX>>

\* the listing is exhausted
BackupFinished ==
    /\ bpc = "backup_loop"
    /\ idx = Len(INPUT_DIR)
    /\ bpc' = "finished"
    /\ UNCHANGED <<INPUT_DIR, OUTPUT_DIR, existing, idx, input_kind, trace>>
    /\ UNCHANGED <<engineVars, poolVars, jobVars, callVars, TEMPLATE_DOCX>>

BackupBatchInit == MergeBatchInit("backup_loop")

BackupBatchNext ==
    \/ BackupNextFile
    \/ BackupDocx
    \/ BackupConvertPdf
    \/ BackupPdf
    \/ BackupFinished

BackupBatchSpec == BackupBatchInit /\ [][BackupBatchNext]_vars

\* the three batch_process functions of the repository
AnyBatchInit == BatchInit \/ MainBatchInit \/ BackupBatchInit

AnyBatchNext == BatchNext \/ MainBatchNext \/ BackupBatchNext

AnyBatchSpec == AnyBatchInit /\ [][AnyBatchNext]_vars

(***************************************************************************)
(* Further claims about the batch                                           *)

\* the names a fallback copy of input file i can have: <base>_fallback<ext>,
\* in main.py <base>_temp_fallback<ext> when a file was at output_path
FallbackNamesOf(i) ==
    {Name(INPUT_DIR[i].base, t, INPUT_DIR[i].ext) : t \in {"_fallback", "_temp_fallback"}}

\* every merge has failed for document i: in fixed_main.py the primary merge
\* and then the zip-level merge, in main.py and main_backup.py the one merge;
\* a merge fails when it raises or returns False, or when its archive step
\* and the handler of that step have left no document
MergesFailed(i) ==
    \/ Occurs(trace[i], "PrimaryFailed") /\ Occurs(trace[i], "FallbackFailed")
    \/ Occurs(trace[i], "MergeFailed")
    \/ /\ Occurs(trace[i], "ArchiveFailed")
       /\ \A n \in DOMAIN OUTPUT_DIR :
             (OUTPUT_DIR[n].src = i /\ OUTPUT_DIR[n].what \in {"branded", "degraded"})
                 => n.ext # "docx"

\* the loop body of batch_process has just been left for input file i
BodyLeft(i) ==
    /\ i = idx
    /\ bpc \in {"loop", "main_loop", "backup_loop", "finished"}

\* OUTPUT_DIR holds a copy of input file i under a fallback name
FallbackCopyOf(i) ==
    \E n \in FallbackNamesOf(i) \cap DOMAIN OUTPUT_DIR :
        OUTPUT_DIR[n] = Content("original", i)

\* C21: in each of the three batch_process functions, when the loop body is
\* left for a document on which every merge has failed, OUTPUT_DIR holds
\* under a name carrying the fallback tag a copy whose content is the
\* input's, and no step of a batch changes the input files
C21_FallbackCopyEqualsInput ==
    /\ [](\A i \in DOMAIN INPUT_DIR :
             (Composed(i) /\ BodyLeft(i) /\ MergesFailed(i)) => FallbackCopyOf(i))
    /\ [][INPUT_DIR' = INPUT_DIR]_vars

(***************************************************************************)
(* The zip-level merge of fixed_main.py: apply_branding_to_docx after       *)
(* create_consistent_document has returned False.  The target directory is  *)
(* kept in the variables of the engine; pc runs through the steps.          *)

\* the template's files word/header*, word/footer*
IsTemplateHeaderFooter(q) ==
    q.dir = "" /\ IsHeaderFooterName(q) /\ tpl.files[q] # NoFile

\* document.xml.rels of the template is copied over the target's
FmCopyDocRels ==
    /\ pc = "fm_rels"
    /\ docRels' = IF tpl.docRels.has THEN tpl.docRels ELSE docRels
    /\ pc' = "fm_hf"
    /\ UNCHANGED <<run, tpl, orig, files, doc, hfRels, styles, ctypes, media_files,
                   rel_files, template_to_new_rids, out, first>>
    /\ UNCHANGED <<ioVars, outerVars>>

\* every header and footer file of the template is copied
FmCopyHeaderFooter ==
    /\ pc = "fm_hf"
    /\ files' = [q \in Parts |-> IF IsTemplateHeaderFooter(q) THEN "tpl" ELSE files[q]]
    /\ pc' = "fm_hfrels"
    /\ UNCHANGED <<run, tpl, orig, doc, docRels, hfRels, styles, ctypes, media_files,
                   rel_files, template_to_new_rids, out, first>>
    /\ UNCHANGED <<ioVars, outerVars>>

\* every relationship file of a header or footer of the template is copied
FmCopyRelFiles ==
    /\ pc = "fm_hfrels"
    /\ hfRels' = [o \in RelOwners |->
                     IF tpl.hfRels[o].has THEN tpl.hfRels[o] ELSE hfRels[o]]
    /\ pc' = "fm_media"
    /\ UNCHANGED <<run, tpl, orig, files, doc, docRels, styles, ctypes, media_files,
                   rel_files, template_to_new_rids, out, first>>
    /\ UNCHANGED <<ioVars, outerVars>>

\* every media file of the template is copied, over a file of the same name
FmCopyMedia ==
    /\ pc = "fm_media"
    /\ files' = [q \in Parts |->
                    IF IsMediaName(q) /\ tpl.files[q] # NoFile THEN "tpl" ELSE files[q]]
    /\ pc' = "fm_types"
    /\ UNCHANGED <<run, tpl, orig, doc, docRels, hfRels, styles, ctypes, media_files,
                   rel_files, template_to_new_rids, out, first>>
    /\ UNCHANGED <<ioVars, outerVars>>

\* [Content_Types].xml of the template is copied over the target's
FmCopyContentTypes ==
    /\ pc = "fm_types"
    /\ ctypes' = IF tpl.ctypes.has THEN tpl.ctypes ELSE ctypes
    /\ pc' = "fm_document"
    /\ UNCHANGED <<run, tpl, orig, files, doc, docRels, hfRels, styles, media_files,
                   rel_files, template_to_new_rids, out, first>>
    /\ UNCHANGED <<ioVars, outerVars>>

\* the sectPr elements of the target body are removed and a copy of the
\* template's sectPr is appended; tree.write declares the namespaces the
\* tree uses; an exception (parse error, body.remove of a nested sectPr)
\* is printed and leaves the file as it was
SectPrFromTemplate(d) ==
    IF ParseOk(d) /\ tpl.sect.has /\ ~HasNestedSect(d)
    THEN [d EXCEPT !.body = Append(SelectSeq(d.body, NotBodySect),
                                   BodySect(tpl.sect.kids)),
                   !.rDecl = d.usesR \/ Refs(tpl.sect.kids) # <<>>]
    ELSE d

FmUpdateDocument ==
    /\ pc = "fm_document"
    /\ doc' = SectPrFromTemplate(doc)
    /\ pc' = "fm_archive"
    /\ UNCHANGED <<run, tpl, orig, files, docRels, hfRels, styles, ctypes, media_files,
                   rel_files, template_to_new_rids, out, first>>
    /\ UNCHANGED <<ioVars, outerVars>>

\* make_archive of the target directory and the rename to output_path
FmCreateArchive ==
    /\ pc = "fm_archive"
    /\ out' = TargetDir
    /\ pc' = "fm_done"
    /\ UNCHANGED <<run, tpl, orig, files, doc, docRels, hfRels, styles, ctypes,
                   media_files, rel_files, template_to_new_rids, first>>
    /\ UNCHANGED <<ioVars, outerVars>>

\* what shutil.copy2(TEMPLATE_DOCX, output_path) of create_consistent_document
\* leaves at output_path: the parts of the template, its document.xml being
\* the template's sectPr
TemplateCopy(t) ==
    [files |-> t.files,
     doc |-> [ok |-> TRUE, rDecl |-> TRUE, usesR |-> FALSE, closed |-> TRUE,
              body |-> IF t.sect.has THEN <<BodySect(t.sect.kids)>> ELSE <<>>],
     docRels |-> t.docRels, hfRels |-> t.hfRels, styles |-> t.styles,
     ctypes |-> t.ctypes]

\* create_consistent_document has returned False and the two packages have
\* been extracted; output_path holds the copy of the template the failed
\* primary merge made, or nothing when the copy itself raised
MergeInit ==
    /\ \E p \in Inputs :
          /\ tpl = Template(p)
          /\ orig = Target(p)
          /\ files = Target(p).files
          /\ doc = Target(p).doc
          /\ docRels = Target(p).docRels
          /\ hfRels = Target(p).hfRels
          /\ styles = Target(p).styles
          /\ ctypes = Target(p).ctypes
          /\ \E copied \in BOOLEAN :
                out = IF copied THEN TemplateCopy(Template(p)) ELSE NoPackage
    /\ media_files = {}
    /\ rel_files = {}
    /\ template_to_new_rids = <<>>
    /\ first = NoPackage
    /\ zip_path = NoPackage
    /\ alt_output = NoPackage
    /\ alt_zip_path = NoPackage
    /\ pc = "fm_rels"
    /\ run = 1
    /\ BatchIdle
    /\ JobIdle
    /\ CallIdle
    /\ PoolIdle

MergeNext ==
    \/ FmCopyDocRels
    \/ FmCopyHeaderFooter
    \/ FmCopyRelFiles
    \/ FmCopyMedia
    \/ FmCopyContentTypes
    \/ FmUpdateDocument
    \/ FmCreateArchive

MergeSpec == MergeInit /\ [][MergeNext]_vars

(***************************************************************************)
(* Claims about the zip-level merge                                         *)

\* the relationship ids the body content refers to: a body that uses r:
\* attributes refers to rId1
BodyRefs(d) == IF d.usesR THEN {MkRid(1)} ELSE {}

\* the relationships a relationship file gives the id
Resolves(rf, id) == {r \in Range(rf.list) : r.Id = id}

\* the blocks of the body other than the sectPr children of the body
BodyContent(d) == SelectSeq(d.body, NotBodySect)

\* C22: the zip-level merge leaves the body of the target as it was apart
\* from the section properties, and every relationship id the body refers
\* to resolves in the output's document.xml.rels to the relationship it
\* resolved to in the input
C22_BodyAndItsReferencesKept ==
    pc = "fm_done" =>
        /\ BodyContent(out.doc) = BodyContent(orig.doc)
        /\ out.doc.usesR = orig.doc.usesR
        /\ \A id \in BodyRefs(orig.doc) :
              Resolves(out.docRels, id) = Resolves(orig.docRels, id)

(***************************************************************************)
(* Further claims about the engine of main.py                               *)

\* the input lacks the root manifest [Content_Types].xml
LacksManifest(pkg) == ~pkg.ctypes.has

\* C23: the composition of an input that lacks the root manifest
\* [Content_Types].xml fails: no merged package is written from it
C23_NoPackageFromCorruptInput ==
    LacksManifest(orig) => out = NoPackage

(***************************************************************************)
(* Composition requests in parallel.  A request is one pass of the loop     *)
(* body of fixed_main.py's batch_process over a .docx file, several runs of *)
(* the script sharing OUTPUT_DIR, or one background task of app.py over an  *)
(* uploaded .docx file, which calls main.py's apply_branding_to_docx with   *)
(* the output directory of its job.  All read the one template file.  The   *)
(* merge itself works in the TemporaryDirectory of the call; a step here is *)
(* one call that reads or writes a file outside of it, and the steps of the *)
(* requests interleave freely.                                              *)

MaxRequests == 3

\* a file of an output directory: dir 0 is OUTPUT_DIR of fixed_main.py, dir r
\* the output directory of the job of request r
Path(d, b, t, e) == [dir |-> d, base |-> b, tag |-> t, ext |-> e]

Paths ==
    [dir : 0..MaxRequests, base : Bases, tag : {"", "_alt", "_fallback"},
     ext : {"docx", "zip"}]

\* a request on <base>.docx before its first step; kind as in FileKinds
Request(m, b, k) ==
    [module |-> m, base |-> b, kind |-> k, template_dir |-> NoContent,
     step |-> IF m = "fixed_main" THEN "copy" ELSE "extract_template"]

\* python-docx is used by fixed_main.py only: for main.py's merge a .docx is
\* a zip or it is not; a task has the output directory of its job to
\* itself, so one upload name stands for all
RequestsOf ==
    {Request("fixed_main", b, k) : <<b, k>> \in Bases \X FileKinds("docx")}
        \cup {Request("main", "a", k) : k \in {"ok", "corrupt"}}

\* output_path of request r
RequestOutputPath(r) ==
    Path(IF requests[r].module = "fixed_main" THEN 0 ELSE r, requests[r].base, "", "docx")

\* <base>.zip, <base>_alt.zip, <base>_alt.docx beside output_path, and
\* temp_fallback of fixed_main.py's batch_process
RequestZipPath(r) == [RequestOutputPath(r) EXCEPT !.ext = "zip"]

RequestAltZipPath(r) == [RequestOutputPath(r) EXCEPT !.tag = "_alt", !.ext = "zip"]

RequestAltOutputPath(r) == [RequestOutputPath(r) EXCEPT !.tag = "_alt"]

RequestFallbackPath(r) == [RequestOutputPath(r) EXCEPT !.tag = "_fallback"]

\* the package the zip-level merge of request r has put together in target_dir
RequestMerged(r) ==
    Content(IF requests[r].module = "fixed_main" THEN "degraded" ELSE "branded", r)

\* request r goes on with step s
Stepped(r, s) == [requests EXCEPT ![r].step = s]

\* create_consistent_document: shutil.copy2(TEMPLATE_DOCX, output_path); when
\* it raises the function returns False
RequestShellCopy ==
    /\ \E r \in DOMAIN requests, shell \in BOOLEAN :
          /\ requests[r].step = "copy"
          /\ LET copied == ShellCopy(TEMPLATE_DOCX, disk[RequestOutputPath(r)])
             IN  IF shell
                 THEN /\ TEMPLATE_DOCX' = copied.template
                      /\ disk' = [disk EXCEPT
                                     ![RequestOutputPath(r)] = Content(copied.shell.what, r)]
                      /\ requests' = Stepped(r, "load")
                 ELSE /\ requests' = Stepped(r, "extract_template")
                      /\ UNCHANGED <<TEMPLATE_DOCX, disk>>
    /\ UNCHANGED <<INPUT_DIR, OUTPUT_DIR, existing, idx, bpc, input_kind, trace>>
    /\ UNCHANGED <<engineVars, jobVars, callVars>>

\* Document(output_path), Document(input_path) and the re-authoring: the
\* file at output_path is the copy, or what another request has put there
\* since; loading raises when the file is there no more, and may raise on
\* what another request has written or is writing there
RequestLoad ==
    /\ \E r \in DOMAIN requests, loaded \in BOOLEAN :
          /\ requests[r].step = "load"
          /\ ~loaded => disk[RequestOutputPath(r)] # Content(TemplateFile.what, r)
          /\ loaded => disk[RequestOutputPath(r)] # NoContent
          /\ requests' = Stepped(r, IF loaded /\ requests[r].kind = "ok"
                                    THEN "save" ELSE "extract_template")
    /\ UNCHANGED <<batchVars, disk>>
    /\ UNCHANGED <<engineVars, jobVars, callVars>>

\* template_doc.save(output_path), return True
RequestSave ==
    /\ \E r \in DOMAIN requests :
          /\ requests[r].step = "save"
          /\ disk' = [disk EXCEPT ![RequestOutputPath(r)] = Content("branded", r)]
          /\ requests' = Stepped(r, "done")
    /\ UNCHANGED batchVars
    /\ UNCHANGED <<engineVars, jobVars, callVars>>

\* ZipFile(TEMPLATE_DOCX).extractall(template_dir): the template file is
\* read into the temporary directory of the call
RequestExtractTemplate ==
    /\ \E r \in DOMAIN requests :
          /\ requests[r].step = "extract_template"
          /\ requests' = [requests EXCEPT ![r].template_dir = TEMPLATE_DOCX,
                                          ![r].step = "extract_input"]
    /\ UNCHANGED <<batchVars, disk>>
    /\ UNCHANGED <<engineVars, jobVars, callVars>>

\* ZipFile(input_path).extractall(target_dir): it raises on a file that is
\* no zip; batch_process of fixed_main.py then copies the input, the task of
\* app.py logs the error
RequestExtractInput ==
    /\ \E r \in DOMAIN requests :
          /\ requests[r].step = "extract_input"
          /\ requests' =
                Stepped(r, CASE requests[r].kind # "corrupt" -> "archive"
                             [] requests[r].module = "fixed_main" -> "passthrough"
                             [] OTHER -> "failed")
    /\ UNCHANGED <<batchVars, disk>>
    /\ UNCHANGED <<engineVars, jobVars, callVars>>

\* shutil.make_archive writes <base>.zip
RequestMakeArchive ==
    /\ \E r \in DOMAIN requests :
          /\ requests[r].step = "archive"
          /\ disk' = [disk EXCEPT ![RequestZipPath(r)] = RequestMerged(r)]
          /\ requests' = Stepped(r, "zip_exists")
    /\ UNCHANGED batchVars
    /\ UNCHANGED <<engineVars, jobVars, callVars>>

\* if os.path.exists(zip_path): without the zip the call returns; main.py
\* goes on with os.makedirs
RequestZipExists ==
    /\ \E r \in DOMAIN requests :
          /\ requests[r].step = "zip_exists"
          /\ requests' =
                Stepped(r, CASE disk[RequestZipPath(r)] = NoContent -> "done"
                             [] requests[r].module = "main" -> "makedirs"
                             [] OTHER -> "output_exists")
    /\ UNCHANGED <<batchVars, disk>>
    /\ UNCHANGED <<engineVars, jobVars, callVars>>

\* os.makedirs(os.path.dirname(output_path), exist_ok=True) of main.py: the
\* directory of the job is there
RequestMakeOutputDir ==
    /\ \E r \in DOMAIN requests :
          /\ requests[r].step = "makedirs"
          /\ requests' = Stepped(r, "output_exists")
    /\ UNCHANGED <<batchVars, disk>>
    /\ UNCHANGED <<engineVars, jobVars, callVars>>

\* if os.path.exists(output_path)
RequestOutputExists ==
    /\ \E r \in DOMAIN requests :
          /\ requests[r].step = "output_exists"
          /\ requests' = Stepped(r, IF disk[RequestOutputPath(r)] # NoContent
                                    THEN "remove" ELSE "rename")
    /\ UNCHANGED <<batchVars, disk>>
    /\ UNCHANGED <<engineVars, jobVars, callVars>>

\* os.remove(output_path); it raises when another request has removed the
\* file since
RequestRemoveOutput ==
    /\ \E r \in DOMAIN requests :
          /\ requests[r].step = "remove"
          /\ IF disk[RequestOutputPath(r)] # NoContent
             THEN /\ disk' = [disk EXCEPT ![RequestOutputPath(r)] = NoContent]
                  /\ requests' = Stepped(r, "rename")
             ELSE /\ requests' = Stepped(r, "alt_zip")
                  /\ UNCHANGED disk
    /\ UNCHANGED batchVars
    /\ UNCHANGED <<engineVars, jobVars, callVars>>

\* os.rename(zip_path, output_path); it raises when another request has
\* renamed the zip since
RequestRenameZip ==
    /\ \E r \in DOMAIN requests :
          /\ requests[r].step = "rename"
          /\ IF disk[RequestZipPath(r)] # NoContent
             THEN /\ disk' = [disk EXCEPT ![RequestOutputPath(r)] = disk[RequestZipPath(r)],
                                          ![RequestZipPath(r)] = NoContent]
                  /\ requests' = Stepped(r, "done")
             ELSE /\ requests' = Stepped(r, "alt_zip")
                  /\ UNCHANGED disk
    /\ UNCHANGED batchVars
    /\ UNCHANGED <<engineVars, jobVars, callVars>>

\* the except branch of the archive step: <base>_alt.zip is written with
\* ZipFile
RequestAltZip ==
    /\ \E r \in DOMAIN requests :
          /\ requests[r].step = "alt_zip"
          /\ disk' = [disk EXCEPT ![RequestAltZipPath(r)] = RequestMerged(r)]
          /\ requests' = Stepped(r, "alt_exists")
    /\ UNCHANGED batchVars
    /\ UNCHANGED <<engineVars, jobVars, callVars>>

\* if os.path.exists(alt_zip_path)
RequestAltZipExists ==
    /\ \E r \in DOMAIN requests :
          /\ requests[r].step = "alt_exists"
          /\ requests' = Stepped(r, IF disk[RequestAltZipPath(r)] # NoContent
                                    THEN "alt_rename" ELSE "done")
    /\ UNCHANGED <<batchVars, disk>>
    /\ UNCHANGED <<engineVars, jobVars, callVars>>

\* os.rename(alt_zip_path, alt_output_path); when it raises, another request
\* having renamed the file, the error is printed; the call returns
RequestAltRename ==
    /\ \E r \in DOMAIN requests :
          /\ requests[r].step = "alt_rename"
          /\ disk' = IF disk[RequestAltZipPath(r)] # NoContent
                     THEN [disk EXCEPT ![RequestAltOutputPath(r)] = disk[RequestAltZipPath(r)],
                                       ![RequestAltZipPath(r)] = NoContent]
                     ELSE disk
          /\ requests' = Stepped(r, "done")
    /\ UNCHANGED batchVars
    /\ UNCHANGED <<engineVars, jobVars, callVars>>

\* the except branch of fixed_main.py's batch_process:
\* shutil.copy2(input_path, temp_fallback); when the copy raises that is
\* printed
RequestPassThrough ==
    /\ \E r \in DOMAIN requests, copied \in BOOLEAN :
          /\ requests[r].step = "passthrough"
          /\ disk' = IF copied
                     THEN [disk EXCEPT ![RequestFallbackPath(r)] = Content("original", r)]
                     ELSE disk
          /\ requests' = Stepped(r, "done")
    /\ UNCHANGED batchVars
    /\ UNCHANGED <<engineVars, jobVars, callVars>>

\* the requests are under way; OUTPUT_DIR holds no file, or the outputs of an
\* earlier run
RequestsInit ==
    /\ EngineIdle
    /\ BatchIdle
    /\ JobIdle
    /\ CallIdle
    /\ requests \in [1..MaxRequests -> RequestsOf]
    /\ \E prev \in {{}, Bases} :
          disk = [p \in Paths |->
                     IF p.dir = 0 /\ p.tag = "" /\ p.ext = "docx" /\ p.base \in prev
                     THEN Previous ELSE NoContent]

RequestsNext ==
    \/ RequestShellCopy
    \/ RequestLoad
    \/ RequestSave
    \/ RequestExtractTemplate
    \/ RequestExtractInput
    \/ RequestMakeArchive
    \/ RequestZipExists
    \/ RequestMakeOutputDir
    \/ RequestOutputExists
    \/ RequestRemoveOutput
    \/ RequestRenameZip
    \/ RequestAltZip
    \/ RequestAltZipExists
    \/ RequestAltRename
    \/ RequestPassThrough

RequestsSpec == RequestsInit /\ [][RequestsNext]_vars

\* a batch of any of the three files, or requests in parallel
AnyRunInit == AnyBatchInit \/ RequestsInit

AnyRunNext == AnyBatchNext \/ RequestsNext

AnyRunSpec == AnyRunInit /\ [][AnyRunNext]_vars

(***************************************************************************)
(* Further claims: the template file                                        *)

\* C24: no strategy writes the template package file, in a batch of any of
\* the three files and in any interleaving of the steps of requests that run
\* in parallel: after every step the file holds what it held before
C24_TemplateFileNeverWritten ==
    /\ [](TEMPLATE_DOCX = TemplateFile)
    /\ [][TEMPLATE_DOCX' = TEMPLATE_DOCX]_vars

\* three requests in progress at once, one in each strategy: the primary
\* merge of one has copied the template to its output_path and not saved
\* yet, the zip-level merge of a task of app.py has extracted the template
\* and written its zip, and a third, whose merges have both failed, is about
\* to copy its input; the first and the third share the output_path
C24_StrategiesInterleaved ==
    \E p, z, c \in DOMAIN requests :
        /\ requests[p].step = "save"
        /\ disk[RequestOutputPath(p)] = Content(TemplateFile.what, p)
        /\ requests[z].module = "main"
        /\ requests[z].step = "rename"
        /\ requests[z].template_dir = TemplateFile
        /\ requests[c].step = "passthrough"
        /\ requests[c].template_dir = TemplateFile
        /\ RequestOutputPath(c) = RequestOutputPath(p)
        /\ TEMPLATE_DOCX = TemplateFile

\* step 8 takes the path that rewrites the template's sectPr as text: the
\* document has no sectPr after step 1 and the template has one
TextualPath ==
    /\ FirstSect(MarginsUpdated(orig.doc).body) = 0
    /\ tpl.sect.has
    /\ Refs(tpl.sect.kids) # <<>>

\* C25: on the path that rewrites the template's section properties by one
\* textual replacement per mapping entry, every reference whose template id
\* is old ends with exactly mapping[old]: none is rewritten a second time
\* because a new id equals another template id of the mapping
C25_EachReferenceMappedOnce ==
    (FirstDone /\ TextualPath) =>
        LET trefs == Refs(tpl.sect.kids)
            wrefs == Refs(WrittenSect(out.doc))
        IN  /\ Len(wrefs) = Len(trefs)
            /\ \A i \in 1..Len(trefs) :
                  wrefs[i].rid = MappedRef(trefs[i], template_to_new_rids).rid

(***************************************************************************)
(* create_consistent_document of fixed_main.py: the primary merge on the   *)
(* bodies of the two documents python-docx has loaded                       *)

MaxBlocks == 3

\* a block of a body: a paragraph ("p") or a table ("tbl"); from and k say
\* which document it comes from and its position there
Block(t, f, k) == [tag |-> t, from |-> f, k |-> k]

\* the bodies of up to MaxBlocks paragraphs and tables of a document
Bodies(f) ==
    UNION {{[k \in 1..n |-> Block(tags[k], f, k)] : tags \in [1..n -> {"p", "tbl"}]} :
           n \in 0..MaxBlocks}

IsParagraph(b) == b.tag = "p"

IsTable(b) == b.tag = "tbl"

\* document.paragraphs, document.tables: the blocks of the kind, in order
paragraphs(body) == SelectSeq(body, IsParagraph)

tables(body) == SelectSeq(body, IsTable)

\* the loop over template_doc.paragraphs: each is removed from its parent
ClearParagraphs ==
    /\ ppc = "paragraphs"
    /\ template_doc' = SelectSeq(template_doc, LAMBDA b : ~IsParagraph(b))
    /\ ppc' = "tables"
    /\ UNCHANGED <<content_doc, sect_pr_element, mpc>>
    /\ UNCHANGED <<engineVars, poolVars, batchVars, jobVars>>

\* the loop over template_doc.tables
ClearTables ==
    /\ ppc = "tables"
    /\ template_doc' = SelectSeq(template_doc, LAMBDA b : ~IsTable(b))
    /\ ppc' = "add_paragraphs"
    /\ UNCHANGED <<content_doc, sect_pr_element, mpc>>
    /\ UNCHANGED <<engineVars, poolVars, batchVars, jobVars>>

\* the loop over content_doc.paragraphs: add_paragraph appends a paragraph
\* to the body, with the text, style and runs of the one it copies
AddParagraphs ==
    /\ ppc = "add_paragraphs"
    /\ template_doc' = template_doc \o paragraphs(content_doc)
    /\ ppc' = "add_tables"
    /\ UNCHANGED <<content_doc, sect_pr_element, mpc>>
    /\ UNCHANGED <<engineVars, poolVars, batchVars, jobVars>>

\* the loop over content_doc.tables: add_table appends a table to the body
AddTables ==
    /\ ppc = "add_tables"
    /\ template_doc' = template_doc \o tables(content_doc)
    /\ ppc' = "save"
    /\ UNCHANGED <<content_doc, sect_pr_element, mpc>>
    /\ UNCHANGED <<engineVars, poolVars, batchVars, jobVars>>

\* template_doc.save(output_path); the function returns True
SaveDocument ==
    /\ ppc = "save"
    /\ ppc' = "saved"
    /\ UNCHANGED <<template_doc, content_doc, sect_pr_element, mpc>>
    /\ UNCHANGED <<engineVars, poolVars, batchVars, jobVars>>

\* the copy of the template and the input have been loaded
PrimaryInit ==
    /\ EngineIdle
    /\ BatchIdle
    /\ JobIdle
    /\ PoolIdle
    /\ template_doc \in Bodies("tpl")
    /\ content_doc \in Bodies("tgt")
    /\ ppc = "paragraphs"
    /\ sect_pr_element = <<>>
    /\ mpc = "idle"

PrimaryNext ==
    \/ ClearParagraphs
    \/ ClearTables
    \/ AddParagraphs
    \/ AddTables
    \/ SaveDocument

PrimarySpec == PrimaryInit /\ [][PrimaryNext]_vars

\* C26: the primary merge re-authors the blocks of the target body in the
\* target's own order: the paragraphs and tables of the saved body are
\* those of the target body in the same sequence, tables between
\* paragraphs included, and no block of the template's body remains
C26_BlocksInTargetOrder ==
    ppc = "saved" =>
        /\ template_doc = content_doc
        /\ \A i \in DOMAIN template_doc : template_doc[i].from = "tgt"

(***************************************************************************)
(* update_section_margins on a section-properties element of its own       *)

MaxKids == 3

\* the children a section-properties element is built of
SectChildren == {TypeEl, LetterSz, LetterMar, HeaderRef(MkRid(1)), Cols}

SectElements == UNION {[1..n -> SectChildren] : n \in 0..MaxKids}

IsPageElement(c) == c.tag \in {"pgSz", "pgMar"}

\* update_section_margins of fixed_main.py: every pgSz and pgMar is removed,
\* a type is inserted in front unless the element has one, then the new pgSz
\* and pgMar are inserted at the positions 1 and 2
update_section_margins_fixed(sect) ==
    LET s1 == SelectSeq(sect, LAMBDA c : ~IsPageElement(c))
        s2 == IF FirstTag(s1, "type") > 0 THEN s1 ELSE InsertAt(s1, 0, TypeEl)
    IN  InsertAt(InsertAt(s2, 1, PgSz(A4Width, A4Height)), 2,
                 PgMar(StdMargin, StdHeaderFooter))

\* a call of update_section_margins of main.py
UpdateSectionMargins ==
    /\ mpc = "called"
    /\ sect_pr_element' = update_section_margins(sect_pr_element)
    /\ mpc' = "returned"
    /\ UNCHANGED <<template_doc, content_doc, ppc>>
    /\ UNCHANGED <<engineVars, poolVars, batchVars, jobVars>>

\* a call of update_section_margins of fixed_main.py
UpdateSectionMarginsFixed ==
    /\ mpc = "called"
    /\ sect_pr_element' = update_section_margins_fixed(sect_pr_element)
    /\ mpc' = "returned"
    /\ UNCHANGED <<template_doc, content_doc, ppc>>
    /\ UNCHANGED <<engineVars, poolVars, batchVars, jobVars>>

MarginsInit ==
    /\ EngineIdle
    /\ BatchIdle
    /\ JobIdle
    /\ PoolIdle
    /\ template_doc = <<>>
    /\ content_doc = <<>>
    /\ ppc = "idle"
    /\ sect_pr_element \in SectElements
    /\ mpc = "called"

MarginsNext ==
    \/ UpdateSectionMargins
    \/ UpdateSectionMarginsFixed

MarginsSpec == MarginsInit /\ [][MarginsNext]_vars

TagCount(kids, t) == Cardinality({i \in DOMAIN kids : kids[i].tag = t})

\* C27: whatever children the element passed to update_section_margins
\* holds, the result has exactly one type, one pgSz and one pgMar child,
\* the type before the pgSz and the pgSz before the pgMar
C27_OneTypeSizeMarginsInOrder ==
    mpc = "returned" =>
        /\ TagCount(sect_pr_element, "type") = 1
        /\ TagCount(sect_pr_element, "pgSz") = 1
        /\ TagCount(sect_pr_element, "pgMar") = 1
        /\ FirstTag(sect_pr_element, "type") < FirstTag(sect_pr_element, "pgSz")
        /\ FirstTag(sect_pr_element, "pgSz") < FirstTag(sect_pr_element, "pgMar")

\* C28: within one job, processing one uploaded file never overwrites or
\* deletes the output made for another uploaded file of the job: a step of
\* the task leaves every output of a file other than the current one as it is
C28_OutputsOfOtherFilesKept ==
    [][\A n \in JobNames :
          (output_dir[n].what = "branded" /\ output_dir[n].src # jidx')
              => output_dir'[n] = output_dir[n]]_vars

(***************************************************************************)
(* Claims about the job and the requests                                    *)

\* the moves of the status the job may make
StatusMoves ==
    {<<"queued", "processing">>, <<"processing", "completed">>,
     <<"processing", "failed">>}

\* C29: the status of a job only moves from queued to processing and from
\* processing to completed or failed, completed and failed being terminal;
\* completed_at is set exactly when the status is completed; and download_all
\* serves the archive only of a job whose status is completed
C29_StatusLifecycle ==
    /\ [][(Tracked /\ Tracked' /\ processing_jobs'.status # processing_jobs.status)
             => <<processing_jobs.status, processing_jobs'.status>> \in StatusMoves]_vars
    /\ [](Tracked =>
             (processing_jobs.completed_at # "None"
                 <=> processing_jobs.status = "completed"))
    /\ [](\A served \in downloads : served.status = "completed")

\* C30: however delete_job and the task of the same job interleave, the task
\* runs no statement on processing_jobs[job_id] once the entry is removed
\* (no KeyError is raised in it), it ends without an unhandled error, and
\* the entry, once removed, stays removed
C30_TaskLeavesDeletedJobAlone ==
    /\ [](exc # "KeyError")
    /\ [](jpc # "crashed")
    /\ [][~Tracked => ~Tracked']_vars

====
